---- MODULE Spec2Model ----
(***************************************************************************)
(* Western Blacksmith: the simulation core (InventorySystem, CoalSystem,   *)
(* ToolDurability, CraftingSystem, ContractSystem) as a state machine.     *)
(*                                                                         *)
(* Units.  JavaScript numbers are modelled as integers in a fixed scale:   *)
(*   material quantities   in tenths          (iron 0.2  -> 2)             *)
(*   forge level           in half points     (level 100 -> 200, the       *)
(*                                             depletion rate 0.5 -> 1)    *)
(*   crafting progress     in tenths of a second (speed 1.0 -> 10)         *)
(*   money                 in cents                                        *)
(* Every amount the modelled code adds or subtracts is a multiple of the   *)
(* unit, so the comparisons of the code are the comparisons of the model.  *)
(***************************************************************************)
EXTENDS Integers, Sequences, FiniteSets, TLC

VARIABLES
    materials,              \* InventorySystem.materials : name -> quantity (tenths)
    items,                  \* InventorySystem.items     : item id -> count
    tools,                  \* InventorySystem.tools     : present tool -> [uses, maxUses]
    money,                  \* InventorySystem.money     (cents)
    level,                  \* CoalSystem.level          (half points)
    hasWarnedAboutLowCoal,  \* CoalSystem.hasWarnedAboutLowCoal
    currentCraft,           \* CraftingSystem.currentCraft (NoJob for null)
    craftingQueue,          \* CraftingSystem.craftingQueue
    speedMultiplier,        \* CraftingSystem.speedMultiplier (tenths)
    jobsStarted,            \* number of jobs created so far (numbers the jobs)
    activeContracts,        \* ContractSystem.activeContracts
    specialContracts,       \* ContractSystem.specialContracts
    contractTimer,          \* ContractSystem.contractTimer
    contractsMade,          \* number of contracts created so far (makes the ids)
    unlockedBlueprints,     \* BlueprintSystem.unlockedBlueprints
    itemUnlocked,           \* itemsData.items[id].unlocked : item id -> flag
    workers,                \* WorkerSystem.workers, in the order of hiring
    hiringDiscounts,        \* WorkerSystem.hiringDiscounts : key -> [multiplier, expiryTime]
    listeners,              \* EventEmitter.events : event name -> array of callbacks
    handlersMade,           \* number of callbacks created so far (makes their identity)
    delivered,              \* history: the callbacks the last emit invoked, in order
    storefrontItems,        \* StorefrontSystem.storefrontItems : item id -> [quantity, price]
    demandMultipliers,      \* StorefrontSystem.demandMultipliers : item id -> [multiplier, expiryTime]
    customerTimer,          \* StorefrontSystem.customerTimer
    activeEvents,           \* EventSystem.activeEvents
    eventCheckTimer,        \* EventSystem.eventCheckTimer
    time,                   \* TimeSystem.time
    isRunning,              \* TimeSystem.isRunning
    now,                    \* the wall clock, new Date(), in minutes
    lowsSinceRefill,        \* history: coal:low events published since the last coal:refilled
    craftTicks,             \* history: update() calls since the current job was started at once
    craftSteady,            \* history: speed 1 and fuel at or above the minimum ever since
    events,                 \* what the last call published, in order
    lastOp                  \* the last call: its name, argument and return value

vars == <<materials, items, tools, money, level, hasWarnedAboutLowCoal,
          currentCraft, craftingQueue, speedMultiplier, jobsStarted,
          activeContracts, specialContracts, contractTimer, contractsMade,
          unlockedBlueprints, itemUnlocked, workers, hiringDiscounts,
          listeners, handlersMade, delivered, now,
          storefrontItems, demandMultipliers, customerTimer,
          activeEvents, eventCheckTimer,
          time, isRunning,
          lowsSinceRefill, craftTicks, craftSteady, events, lastOp>>

(***************************************************************************)
(* Bounds of the model.                                                    *)
(***************************************************************************)
MaxMaterial == 12     \* the largest quantity (tenths) an add may bring a material to
MaxMoney    == 3000   \* the largest balance (cents) an income may bring the money to
MaxJobs     == 3      \* startCrafting calls that create a job, per behaviour
MaxNow      == 6      \* the wall clock runs 0 .. MaxNow minutes
MaxContractIds == 5   \* contracts created, per behaviour
MaxTimer    == 3      \* update() runs from MaxTimer updates before the interval to MaxTimer after

(***************************************************************************)
(* Helpers.                                                                *)
(***************************************************************************)
Min(a, b) == IF a <= b THEN a ELSE b

Ev(name, arg) == [name |-> name, arg |-> arg]

\* A call: its name, its string argument, its numeric argument, what it returned
\* (TRUE for a call that returns nothing).
Op(name, arg, n, ret) == [op |-> name, arg |-> arg, n |-> n, ret |-> ret]

\* How many events of the sequence have that name.
CountName(evs, name) == Cardinality({ i \in 1..Len(evs) : evs[i].name = name })

\* How many events of the sequence have that name and argument.
CountEv(evs, name, arg) ==
    Cardinality({ i \in 1..Len(evs) : evs[i] = Ev(name, arg) })

(***************************************************************************)
(* src/data/items.js                                                       *)
(***************************************************************************)
Materials == {"iron", "coal", "wood", "gunpowder"}

ToolNames == {"hammer", "anvil", "tongs", "chisel", "file"}

\* The recipes the model keeps, with the numbers of items.js.  requiredMaterials
\* is a sequence: Object.entries walks the keys in this order.  batchSize 0 and
\* createsTool "" and blueprintPrice 0 stand for an absent property; prices are
\* in cents; unlocked is the flag as items.js ships it.
ItemsData ==
    [ nail |->
        [ category |-> "metal", complexity |-> "simple", craftingTime |-> 10,
          requiredMaterials |-> << <<"iron", 2>> >>,
          coalUsage |-> 2, batchSize |-> 10, createsTool |-> "", unlocked |-> TRUE,
          basePrice |-> 25, blueprintPrice |-> 0 ],
      new_chisel |->
        [ category |-> "tool", complexity |-> "medium", craftingTime |-> 30,
          requiredMaterials |-> << <<"iron", 10>>, <<"wood", 5>> >>,
          coalUsage |-> 3, batchSize |-> 0, createsTool |-> "chisel", unlocked |-> TRUE,
          basePrice |-> 750, blueprintPrice |-> 0 ],
      bullets |->
        [ category |-> "weapon", complexity |-> "medium", craftingTime |-> 30,
          requiredMaterials |-> << <<"iron", 5>>, <<"gunpowder", 5>> >>,
          coalUsage |-> 2, batchSize |-> 10, createsTool |-> "", unlocked |-> FALSE,
          basePrice |-> 50, blueprintPrice |-> 2500 ] ]

ItemIds == DOMAIN ItemsData

\* An id that items.js does not define.
UnknownItem == "widget"

(***************************************************************************)
(* The state as one record, so that a method can call another.  ev collects *)
(* the events published during the call, ret is the value returned by the  *)
(* innermost call just made.                                               *)
(***************************************************************************)
St ==
    [ materials |-> materials, items |-> items, tools |-> tools, money |-> money,
      level |-> level, warned |-> hasWarnedAboutLowCoal,
      cur |-> currentCraft, queue |-> craftingQueue, speed |-> speedMultiplier,
      jobs |-> jobsStarted,
      active |-> activeContracts, special |-> specialContracts,
      timer |-> contractTimer, made |-> contractsMade, now |-> now,
      blueprints |-> unlockedBlueprints, unlocked |-> itemUnlocked,
      workers |-> workers, discounts |-> hiringDiscounts,
      store |-> storefrontItems, demand |-> demandMultipliers, custTimer |-> customerTimer,
      evActive |-> activeEvents, evTimer |-> eventCheckTimer,
      time |-> time, running |-> isRunning,
      ev |-> <<>>, ret |-> TRUE ]

\* currentCraft = null.  jobNo numbers the jobs in the order of their creation.
NoJob ==
    [ itemId |-> "", craftingTime |-> 0, progress |-> 0, quantity |-> 0,
      paused |-> FALSE, pauseReason |-> "", jobNo |-> 0 ]

\* hasEnoughCoal(requiredLevel = 20), in half points.
MinCoalLevel == 40

\* The history of coal:low: each one counts (up to 2), a coal:refilled starts anew.
RECURSIVE LowsAfter(_, _)
LowsAfter(n, evs) ==
    IF evs = <<>>
    THEN n
    ELSE LowsAfter(CASE Head(evs).name = "coal:low"      -> Min(n + 1, 2)
                     [] Head(evs).name = "coal:refilled" -> 0
                     [] OTHER                            -> n,
                   Tail(evs))

\* The call ends: the fields of the record become the state.
Commit(S, op) ==
    /\ lowsSinceRefill' = LowsAfter(lowsSinceRefill, S.ev)
    /\ IF op.op = "startCrafting" /\ op.ret /\ currentCraft = NoJob
       THEN /\ craftTicks' = 0
            /\ craftSteady' = (S.level >= MinCoalLevel /\ S.speed = 10)
       ELSE IF S.cur.jobNo # currentCraft.jobNo
       THEN /\ craftTicks' = 0
            /\ craftSteady' = FALSE
       ELSE /\ craftTicks' = IF op.op \in {"crafting.update", "tick"} /\ craftSteady
                             THEN craftTicks + 1 ELSE craftTicks
            /\ craftSteady' = (craftSteady /\ S.level >= MinCoalLevel /\ S.speed = 10)
    /\ materials' = S.materials
    /\ items' = S.items
    /\ tools' = S.tools
    /\ money' = S.money
    /\ level' = S.level
    /\ hasWarnedAboutLowCoal' = S.warned
    /\ currentCraft' = S.cur
    /\ craftingQueue' = S.queue
    /\ speedMultiplier' = S.speed
    /\ jobsStarted' = S.jobs
    /\ activeContracts' = S.active
    /\ specialContracts' = S.special
    /\ contractTimer' = S.timer
    /\ contractsMade' = S.made
    /\ unlockedBlueprints' = S.blueprints
    /\ itemUnlocked' = S.unlocked
    /\ workers' = S.workers
    /\ hiringDiscounts' = S.discounts
    /\ UNCHANGED <<listeners, handlersMade, delivered>>
    /\ storefrontItems' = S.store
    /\ demandMultipliers' = S.demand
    /\ customerTimer' = S.custTimer
    /\ activeEvents' = S.evActive
    /\ eventCheckTimer' = S.evTimer
    /\ time' = S.time
    /\ isRunning' = S.running
    /\ events' = S.ev
    /\ lastOp' = op
    /\ now' = now

\* eventEmitter.emit for an event none of the modelled systems listens to.
Publish(S, name, arg) == [S EXCEPT !.ev = Append(@, Ev(name, arg))]

Return(S, v) == [S EXCEPT !.ret = v]

(***************************************************************************)
(* InventorySystem                                                         *)
(***************************************************************************)
\* !this.materials[name] || this.materials[name] < amount
MaterialShort(S, name, amount) ==
    S.materials[name] = 0 \/ S.materials[name] < amount

AddMaterial(S, name, amount) ==
    IF amount <= 0
    THEN Return(S, FALSE)
    ELSE Return(Publish([S EXCEPT !.materials[name] = @ + amount],
                        "inventory:updated", ""), TRUE)

RemoveMaterial(S, name, amount) ==
    IF MaterialShort(S, name, amount)
    THEN Return(S, FALSE)
    ELSE Return(Publish([S EXCEPT !.materials[name] = @ - amount],
                        "inventory:updated", ""), TRUE)

HasMaterials(S, required) ==
    \A i \in 1..Len(required) : ~MaterialShort(S, required[i][1], required[i][2])

\* The loop of consumeMaterials: this.materials[name] -= amount for each entry.
RECURSIVE DebitAll(_, _)
DebitAll(mats, required) ==
    IF required = <<>>
    THEN mats
    ELSE DebitAll([mats EXCEPT ![Head(required)[1]] = @ - Head(required)[2]],
                  Tail(required))

\* Mutant: debit entry by entry and stop at the first shortage.
RECURSIVE ConsumeMaterialsEager(_, _)
ConsumeMaterialsEager(S, required) ==
    IF required = <<>>
    THEN Return(Publish(S, "inventory:updated", ""), TRUE)
    ELSE IF MaterialShort(S, Head(required)[1], Head(required)[2])
         THEN Return(S, FALSE)
         ELSE ConsumeMaterialsEager(
                  [S EXCEPT !.materials[Head(required)[1]] = @ - Head(required)[2]],
                  Tail(required))

ConsumeMaterials(S, required) ==
    IF ~HasMaterials(S, required)
    THEN Return(S, FALSE)
    ELSE Return(Publish([S EXCEPT !.materials = DebitAll(@, required)],
                        "inventory:updated", ""), TRUE)

AddItem(S, itemName, amount) ==
    IF amount <= 0
    THEN Return(S, FALSE)
    ELSE Return(Publish([S EXCEPT !.items[itemName] = @ + amount],
                        "inventory:updated", ""), TRUE)

\* A count of 0 stands for a deleted entry.
RemoveItem(S, itemName, amount) ==
    IF S.items[itemName] = 0 \/ S.items[itemName] < amount
    THEN Return(S, FALSE)
    ELSE Return(Publish([S EXCEPT !.items[itemName] = @ - amount],
                        "inventory:updated", ""), TRUE)

HasItems(S, itemName, amount) ==
    ~(S.items[itemName] = 0 \/ S.items[itemName] < amount)

\* defaultDurability[toolName] || 30
DefaultDurability(toolName) ==
    CASE toolName = "hammer" -> 30
      [] toolName = "anvil"  -> 50
      [] toolName = "tongs"  -> 40
      [] toolName = "chisel" -> 25
      [] toolName = "file"   -> 35
      [] OTHER               -> 30

\* this.tools[toolName] = {...}: the tool is added to, or replaced in, the map.
PutTool(tls, toolName, rec) ==
    [t \in (DOMAIN tls) \cup {toolName} |-> IF t = toolName THEN rec ELSE tls[t]]

\* delete this.tools[toolName]
DeleteTool(tls, toolName) ==
    [t \in (DOMAIN tls) \ {toolName} |-> tls[t]]

\* maxUses 0 stands for the default argument null.
AddOrReplaceTool(S, toolName, maxUses) ==
    LET m == IF maxUses = 0 THEN DefaultDurability(toolName) ELSE maxUses
    IN  Return(Publish([S EXCEPT !.tools = PutTool(@, toolName,
                                                   [uses |-> m, maxUses |-> m])],
                       "inventory:updated", ""), TRUE)

HasTool(S, toolName) == toolName \in DOMAIN S.tools

\* Mutant: the tool breaks only below 0 uses.
UseToolBelowZero(S, toolName, usesAmount) ==
    IF ~HasTool(S, toolName)
    THEN Return(S, FALSE)
    ELSE LET left == S.tools[toolName].uses - usesAmount
             S1 == IF left < 0
                   THEN Publish([S EXCEPT !.tools = DeleteTool(@, toolName)],
                                "tool:broken", toolName)
                   ELSE [S EXCEPT !.tools[toolName].uses = left]
         IN  Return(Publish(S1, "inventory:updated", ""), TRUE)

UseTool(S, toolName, usesAmount) ==
    IF ~HasTool(S, toolName)
    THEN Return(S, FALSE)
    ELSE LET left == S.tools[toolName].uses - usesAmount
             S1 == IF left <= 0
                   THEN Publish([S EXCEPT !.tools = DeleteTool(@, toolName)],
                                "tool:broken", toolName)
                   ELSE [S EXCEPT !.tools[toolName].uses = left]
         IN  Return(Publish(S1, "inventory:updated", ""), TRUE)

AddMoney(S, amount) ==
    IF amount <= 0
    THEN Return(S, FALSE)
    ELSE Return(Publish([S EXCEPT !.money = @ + amount], "money:updated", ""), TRUE)

\* Mutant: the amount is not checked against 0.
RemoveMoneyAnySign(S, amount) ==
    IF S.money < amount
    THEN Return(S, FALSE)
    ELSE Return(Publish([S EXCEPT !.money = @ - amount], "money:updated", ""), TRUE)

RemoveMoney(S, amount) ==
    IF amount <= 0 \/ S.money < amount
    THEN Return(S, FALSE)
    ELSE Return(Publish([S EXCEPT !.money = @ - amount], "money:updated", ""), TRUE)

\* The loop of the purchase:materials listener: addMaterial for each entry.
RECURSIVE AddAll(_, _)
AddAll(S, bought) ==
    IF bought = <<>>
    THEN S
    ELSE AddAll(AddMaterial(S, Head(bought)[1], Head(bought)[2]), Tail(bought))

\* The listener of purchase:materials.
OnPurchaseMaterials(S, bought, cost) ==
    LET S1 == RemoveMoney(S, cost)
    IN  IF ~S1.ret
        THEN Return(Publish(S1, "notification:error", ""), FALSE)
        ELSE Return(Publish(Publish(AddAll(S1, bought), "inventory:updated", ""),
                            "notification:success", ""), TRUE)

\* The listener of purchase:tool.
OnPurchaseTool(S, toolName, cost) ==
    LET S1 == RemoveMoney(S, cost)
    IN  IF ~S1.ret
        THEN Return(Publish(S1, "notification:error", ""), FALSE)
        ELSE Return(Publish(Publish(AddOrReplaceTool(S1, toolName, 0),
                                    "inventory:updated", ""),
                            "notification:success", ""), TRUE)

\* The listener of item:sell.
OnItemSell(S, itemName, price) ==
    LET S1 == RemoveItem(S, itemName, 1)
    IN  IF S1.ret
        THEN Return(Publish(AddMoney(S1, price), "inventory:updated", ""), TRUE)
        ELSE Return(S1, FALSE)

(***************************************************************************)
(* ToolDurability                                                          *)
(***************************************************************************)
\* this.toolRequirements[category] || ['hammer'], with itemData.category || 'metal'
RequiredTools(category) ==
    CASE category = "metal"   -> <<"hammer", "tongs", "anvil">>
      [] category = "weapon"  -> <<"hammer", "tongs", "anvil", "file">>
      [] category = "wood"    -> <<"saw", "hammer">>
      [] category = "leather" -> <<"needle", "scissors">>
      [] OTHER                -> <<"hammer">>

\* this.toolUsageCosts[complexity] || 1
ToolUsageCost(complexity) ==
    CASE complexity = "simple"  -> 1
      [] complexity = "medium"  -> 2
      [] complexity = "complex" -> 3
      [] OTHER                  -> 1

GetMissingTools(S, itemData) ==
    SelectSeq(RequiredTools(itemData.category), LAMBDA t : ~HasTool(S, t))

\* The loop of useToolsForItem: useTool on every required tool that is present.
RECURSIVE WearAll(_, _, _)
WearAll(S, required, usageAmount) ==
    IF required = <<>>
    THEN S
    ELSE WearAll(IF HasTool(S, Head(required))
                 THEN UseTool(S, Head(required), usageAmount)
                 ELSE S,
                 Tail(required), usageAmount)

UseToolsForItem(S, itemData) ==
    WearAll(S, RequiredTools(itemData.category), ToolUsageCost(itemData.complexity))

\* getTools() copies the map, not the records in it: the assignment to
\* tools[toolName].uses changes the ledger's tool.
RepairTool(S, toolName, repairAmount) ==
    IF ~HasTool(S, toolName)
    THEN Return(S, FALSE)
    ELSE LET newDurability == Min(S.tools[toolName].uses + repairAmount,
                                  S.tools[toolName].maxUses)
         IN  Return(Publish([S EXCEPT !.tools[toolName].uses = newDurability],
                            "tool:repaired", toolName), TRUE)

(***************************************************************************)
(* CraftingSystem: pauseCrafting and the listener of coal:updated, which    *)
(* CoalSystem's emits run.                                                  *)
(***************************************************************************)
PauseCrafting(S, reason) ==
    IF S.cur = NoJob
    THEN S
    ELSE Publish([S EXCEPT !.cur.paused = TRUE, !.cur.pauseReason = reason],
                 "crafting:paused", S.cur.itemId)

\* emit('coal:updated', this.level) and its listener in CraftingSystem.
EmitCoalUpdated(S) ==
    LET S1 == Publish(S, "coal:updated", "")
    IN  IF S1.level <= 0 /\ S1.cur # NoJob
        THEN PauseCrafting(S1, "Not enough coal")
        ELSE S1

(***************************************************************************)
(* CoalSystem.  Levels are in half points, coal material in tenths.        *)
(***************************************************************************)
FullLevel     == 200    \* level 100
DepletionRate == 1      \* depletionRate 0.5
LowThreshold  == 40     \* lowThreshold 20
CoalPerRefill == 50     \* coalPerRefill 5

\* if (this.level < 0) this.level = 0
ClampLevel(S) == IF S.level < 0 THEN [S EXCEPT !.level = 0] ELSE S

\* The low-coal warning of update() and consumeCoal().
WarnIfLow(S) ==
    IF S.level <= LowThreshold /\ ~S.warned
    THEN [Publish(S, "coal:low", "") EXCEPT !.warned = TRUE]
    ELSE S

Refill(S) ==
    IF S.materials["coal"] < CoalPerRefill
    THEN Return(Publish(S, "notification:error", ""), FALSE)
    ELSE IF S.level >= FullLevel
    THEN Return(Publish(S, "notification:info", ""), FALSE)
    ELSE LET S1 == RemoveMaterial(S, "coal", CoalPerRefill)
         IN  IF ~S1.ret
             THEN Return(S1, FALSE)
             ELSE Return(EmitCoalUpdated(
                            Publish([S1 EXCEPT !.level = FullLevel, !.warned = FALSE],
                                    "coal:refilled", "")),
                         TRUE)

\* Mutant: the forge gains what it should lose.
CoalUpdateHeats(S) ==
    IF S.level > 0
    THEN EmitCoalUpdated(WarnIfLow(ClampLevel([S EXCEPT !.level = @ + DepletionRate])))
    ELSE S

CoalUpdate(S) ==
    IF S.level > 0
    THEN LET S1 == WarnIfLow(ClampLevel([S EXCEPT !.level = @ - DepletionRate]))
             S2 == IF S1.level <= LowThreshold /\ S1.materials["coal"] >= CoalPerRefill
                   THEN Refill(S1)
                   ELSE S1
         IN  Return(EmitCoalUpdated(S2), TRUE)
    ELSE Return(S, TRUE)

HasEnoughCoal(S) == S.level >= MinCoalLevel

\* Mutant: the warning is published without a look at the warned flag.
ConsumeCoalAlwaysWarns(S, amount) ==
    IF S.level < amount
    THEN Return(S, FALSE)
    ELSE LET S1 == ClampLevel([S EXCEPT !.level = @ - amount])
             S2 == IF S1.level <= LowThreshold
                   THEN [Publish(S1, "coal:low", "") EXCEPT !.warned = TRUE]
                   ELSE S1
         IN  Return(EmitCoalUpdated(Publish(S2, "coal:consumed", "")), TRUE)

ConsumeCoal(S, amount) ==
    IF S.level < amount
    THEN Return(S, FALSE)
    ELSE Return(EmitCoalUpdated(
                    Publish(WarnIfLow(ClampLevel([S EXCEPT !.level = @ - amount])),
                            "coal:consumed", "")),
                TRUE)

(***************************************************************************)
(* CraftingSystem.  Times and progress are in tenths of a second.           *)
(***************************************************************************)
\* itemData.batchSize || 1
BatchSize(itemData) == IF itemData.batchSize = 0 THEN 1 ELSE itemData.batchSize

\* itemData.coalUsage || 5, in half points.
CoalUsage(itemData) == 2 * (IF itemData.coalUsage = 0 THEN 5 ELSE itemData.coalUsage)

\* The loop of startCrafting: removeMaterial(name, amount * quantity) for each
\* entry, giving up at the first one the ledger refuses.
RECURSIVE ConsumeForCraft(_, _, _)
ConsumeForCraft(S, required, quantity) ==
    IF required = <<>>
    THEN Return(S, TRUE)
    ELSE LET S1 == RemoveMaterial(S, Head(required)[1], Head(required)[2] * quantity)
         IN  IF ~S1.ret
             THEN Return(S1, FALSE)
             ELSE ConsumeForCraft(S1, Tail(required), quantity)

\* Mutant: the unlocked flag is not looked at.
StartRefusalAnyBlueprint(S, itemId) ==
    IF itemId \notin ItemIds
    THEN "Unknown item"
    ELSE LET itemData == ItemsData[itemId]
         IN  IF Len(GetMissingTools(S, itemData)) > 0
             THEN "Missing tools"
             ELSE IF ~HasMaterials(S, itemData.requiredMaterials)
             THEN "Not enough materials"
             ELSE IF ~HasEnoughCoal(S)
             THEN "Not enough coal in the forge"
             ELSE ""

\* The checks of startCrafting, in its order: "" when all pass, else the
\* notification of the first one that fails.
StartRefusal(S, itemId) ==
    IF itemId \notin ItemIds
    THEN "Unknown item"
    ELSE LET itemData == ItemsData[itemId]
         IN  IF ~S.unlocked[itemId]
             THEN "You haven't unlocked the blueprint"
             ELSE IF Len(GetMissingTools(S, itemData)) > 0
             THEN "Missing tools"
             ELSE IF ~HasMaterials(S, itemData.requiredMaterials)
             THEN "Not enough materials"
             ELSE IF ~HasEnoughCoal(S)
             THEN "Not enough coal in the forge"
             ELSE ""

StartCrafting(S, itemId, quantity) ==
    IF StartRefusal(S, itemId) # ""
    THEN Return(Publish(S, "notification:error", StartRefusal(S, itemId)), FALSE)
    ELSE LET itemData == ItemsData[itemId]
             S1 == ConsumeForCraft(S, itemData.requiredMaterials, quantity)
         IN  IF ~S1.ret
             THEN Return(S1, FALSE)
             ELSE LET S2 == ConsumeCoal(S1, CoalUsage(itemData))
                      craftingJob ==
                          [ itemId |-> itemId,
                            craftingTime |-> 10 * itemData.craftingTime,
                            progress |-> 0,
                            quantity |-> BatchSize(itemData) * quantity,
                            paused |-> FALSE, pauseReason |-> "",
                            jobNo |-> S.jobs + 1 ]
                      S3 == [S2 EXCEPT !.jobs = @ + 1]
                  IN  IF S3.cur # NoJob
                      THEN Return(Publish([S3 EXCEPT !.queue = Append(@, craftingJob)],
                                          "crafting:queued", itemId), TRUE)
                      ELSE Return(Publish([S3 EXCEPT !.cur = craftingJob],
                                          "crafting:started", itemId), TRUE)

\* Mutant: the next job is taken from the end of the queue.
PromoteLast(S) ==
    IF S.queue # <<>>
    THEN Publish([S EXCEPT !.cur = S.queue[Len(S.queue)],
                           !.queue = SubSeq(S.queue, 1, Len(S.queue) - 1)],
                 "crafting:started", S.queue[Len(S.queue)].itemId)
    ELSE S

\* this.currentCraft = this.craftingQueue.shift(), when the queue is not empty.
Promote(S) ==
    IF S.queue # <<>>
    THEN Publish([S EXCEPT !.cur = Head(S.queue), !.queue = Tail(S.queue)],
                 "crafting:started", Head(S.queue).itemId)
    ELSE S

\* Mutant: the finished job leaves the slot empty, whatever waits in the queue.
CompleteCraftingNoPromote(S) ==
    IF S.cur = NoJob
    THEN S
    ELSE LET job == S.cur
             itemData == ItemsData[job.itemId]
             S1 == UseToolsForItem(S, itemData)
             S2 == IF itemData.createsTool # ""
                   THEN Publish(AddOrReplaceTool(S1, itemData.createsTool, 0),
                                "notification:success", "")
                   ELSE Publish(Publish(AddItem(S1, job.itemId, job.quantity),
                                        "item:crafted", job.itemId),
                                "notification:success", "")
         IN  Publish([S2 EXCEPT !.cur = NoJob], "crafting:queue-empty", "")

CompleteCrafting(S) ==
    IF S.cur = NoJob
    THEN S
    ELSE LET job == S.cur
             itemData == ItemsData[job.itemId]
             S1 == UseToolsForItem(S, itemData)
             S2 == IF itemData.createsTool # ""
                   THEN Publish(AddOrReplaceTool(S1, itemData.createsTool, 0),
                                "notification:success", "")
                   ELSE Publish(Publish(AddItem(S1, job.itemId, job.quantity),
                                        "item:crafted", job.itemId),
                                "notification:success", "")
             S3 == [S2 EXCEPT !.cur = NoJob]
         IN  IF S3.queue # <<>>
             THEN Promote(S3)
             ELSE Publish(S3, "crafting:queue-empty", "")

\* Mutant: the job completes one update late.
CraftUpdateLate(S) ==
    LET S1 == IF S.cur = NoJob THEN Promote(S) ELSE S
    IN  IF S1.cur = NoJob \/ S1.cur.paused
        THEN Return(S1, TRUE)
        ELSE LET S2 == [S1 EXCEPT !.cur.progress = @ + S1.speed]
             IN  IF ~HasEnoughCoal(S2)
                 THEN Return(PauseCrafting(S2, "Not enough coal"), TRUE)
                 ELSE IF S2.cur.progress > S2.cur.craftingTime
                 THEN Return(CompleteCrafting(S2), TRUE)
                 ELSE Return(Publish(S2, "crafting:progress", S2.cur.itemId), TRUE)

CraftUpdate(S) ==
    LET S1 == IF S.cur = NoJob THEN Promote(S) ELSE S
    IN  IF S1.cur = NoJob \/ S1.cur.paused
        THEN Return(S1, TRUE)
        ELSE LET S2 == [S1 EXCEPT !.cur.progress = @ + S1.speed]
             IN  IF ~HasEnoughCoal(S2)
                 THEN Return(PauseCrafting(S2, "Not enough coal"), TRUE)
                 ELSE IF S2.cur.progress >= S2.cur.craftingTime
                 THEN Return(CompleteCrafting(S2), TRUE)
                 ELSE Return(Publish(S2, "crafting:progress", S2.cur.itemId), TRUE)

\* Mutant: a job paused for lack of coal is resumed without a look at the forge.
ResumeCraftingColdForge(S) ==
    IF S.cur = NoJob \/ ~S.cur.paused
    THEN Return(S, FALSE)
    ELSE Return(Publish([S EXCEPT !.cur.paused = FALSE, !.cur.pauseReason = ""],
                        "crafting:resumed", S.cur.itemId), TRUE)

ResumeCrafting(S) ==
    IF S.cur = NoJob \/ ~S.cur.paused
    THEN Return(S, FALSE)
    ELSE IF S.cur.pauseReason = "Not enough coal" /\ ~HasEnoughCoal(S)
    THEN Return(Publish(S, "notification:error", ""), FALSE)
    ELSE Return(Publish([S EXCEPT !.cur.paused = FALSE, !.cur.pauseReason = ""],
                        "crafting:resumed", S.cur.itemId), TRUE)

\* Math.floor(amount * refundRatio) with refundRatio = 1 - progress / craftingTime,
\* for an amount in tenths; the result in tenths.
RefundAmount(amount, job) ==
    10 * ((amount * (job.craftingTime - job.progress)) \div (10 * job.craftingTime))

\* The refund loop of cancelCurrentCraft.
RECURSIVE RefundPart(_, _, _)
RefundPart(S, required, job) ==
    IF required = <<>>
    THEN S
    ELSE RefundPart(IF RefundAmount(Head(required)[2], job) > 0
                    THEN AddMaterial(S, Head(required)[1],
                                     RefundAmount(Head(required)[2], job))
                    ELSE S,
                    Tail(required), job)

CancelCurrentCraft(S) ==
    IF S.cur = NoJob
    THEN Return(S, FALSE)
    ELSE LET job == S.cur
             \* refundRatio > 0.5
             S1 == IF 2 * (job.craftingTime - job.progress) > job.craftingTime
                   THEN RefundPart(S, ItemsData[job.itemId].requiredMaterials, job)
                   ELSE S
             S2 == Promote([S1 EXCEPT !.cur = NoJob])
         IN  Return(Publish(Publish(S2, "notification:info", ""),
                            "crafting:canceled", job.itemId), TRUE)

\* The refund loop of cancelQueuedCraft.
RECURSIVE RefundAll(_, _)
RefundAll(S, required) ==
    IF required = <<>>
    THEN S
    ELSE RefundAll(AddMaterial(S, Head(required)[1], Head(required)[2]), Tail(required))

\* index counts from 0, as in the code.
CancelQueuedCraft(S, index) ==
    IF index < 0 \/ index >= Len(S.queue)
    THEN Return(S, FALSE)
    ELSE LET job == S.queue[index + 1]
             S1 == RefundAll(S, ItemsData[job.itemId].requiredMaterials)
             S2 == [S1 EXCEPT !.queue = SubSeq(S.queue, 1, index)
                                          \o SubSeq(S.queue, index + 2, Len(S.queue))]
         IN  Return(Publish(Publish(S2, "notification:info", ""),
                            "crafting:queue-updated", ""), TRUE)

\* Mutant: the forge is not looked at.
CanCraftColdForge(S, itemId) ==
    IF itemId \notin ItemIds
    THEN [canCraft |-> FALSE, reason |-> "Unknown item"]
    ELSE IF ~S.unlocked[itemId]
    THEN [canCraft |-> FALSE, reason |-> "Blueprint not unlocked"]
    ELSE IF GetMissingTools(S, ItemsData[itemId]) # <<>>
    THEN [canCraft |-> FALSE, reason |-> "Missing tools"]
    ELSE IF ~HasMaterials(S, ItemsData[itemId].requiredMaterials)
    THEN [canCraft |-> FALSE, reason |-> "Not enough materials"]
    ELSE [canCraft |-> TRUE, reason |-> ""]

\* reason "" stands for null.
CanCraft(S, itemId) ==
    IF itemId \notin ItemIds
    THEN [canCraft |-> FALSE, reason |-> "Unknown item"]
    ELSE IF ~S.unlocked[itemId]
    THEN [canCraft |-> FALSE, reason |-> "Blueprint not unlocked"]
    ELSE IF GetMissingTools(S, ItemsData[itemId]) # <<>>
    THEN [canCraft |-> FALSE, reason |-> "Missing tools"]
    ELSE IF ~HasMaterials(S, ItemsData[itemId].requiredMaterials)
    THEN [canCraft |-> FALSE, reason |-> "Not enough materials"]
    ELSE IF ~HasEnoughCoal(S)
    THEN [canCraft |-> FALSE, reason |-> "Not enough coal"]
    ELSE [canCraft |-> TRUE, reason |-> ""]

SetSpeedMultiplier(S, multiplier) == Return([S EXCEPT !.speed = multiplier], TRUE)

(***************************************************************************)
(* Initial values.  The constructors set the quantities of Constructed; the *)
(* specifications below start from states of the same shape with smaller    *)
(* numbers (a shop that has been played for a while), so that shortages,    *)
(* broken tools and an empty forge are within a few steps.                  *)
(***************************************************************************)
StockIds == ItemIds \cup {"horseshoe"}

NoOp == Op("init", "", 0, TRUE)

\* BlueprintSystem's constructor: the blueprints of the items marked unlocked.
InitCatalog ==
    /\ itemUnlocked = [i \in ItemIds |-> ItemsData[i].unlocked]
    /\ unlockedBlueprints = {i \in ItemIds : ItemsData[i].unlocked}

\* WorkerSystem's constructor: nobody hired, no discount.
InitWorkforce ==
    /\ workers = <<>>
    /\ hiringDiscounts = <<>>

\* EventEmitter's constructor: an empty Map.
InitEmitter ==
    /\ listeners = <<>>
    /\ handlersMade = 0
    /\ delivered = <<>>

\* StorefrontSystem's constructor: nothing listed, no demand multiplier.
InitStore ==
    /\ storefrontItems = <<>>
    /\ demandMultipliers = <<>>
    /\ customerTimer = 0

\* EventSystem's constructor: no active event.
InitEvents ==
    /\ activeEvents = <<>>
    /\ eventCheckTimer = 0

\* TimeSystem's constructor: day 1, eight o'clock, stopped.  minute and
\* totalMinutes are JavaScript numbers: n + k * 2^-52.
InitClock ==
    /\ time = [ day |-> 1, hour |-> 8, minute |-> [n |-> 0, k |-> 0],
                totalMinutes |-> [n |-> 0, k |-> 0] ]
    /\ isRunning = FALSE

\* What the constructors leave outside the ledger.
InitRest ==
    /\ level = 200
    /\ hasWarnedAboutLowCoal = FALSE
    /\ currentCraft = NoJob
    /\ craftingQueue = <<>>
    /\ speedMultiplier = 10
    /\ jobsStarted = 0
    /\ activeContracts = <<>>
    /\ specialContracts = <<>>
    /\ contractTimer = 0
    /\ contractsMade = 0
    /\ InitCatalog
    /\ InitWorkforce
    /\ InitEmitter
    /\ InitStore
    /\ InitEvents
    /\ InitClock
    /\ now = 0
    /\ lowsSinceRefill = 0
    /\ craftTicks = 0
    /\ craftSteady = FALSE
    /\ events = <<>>
    /\ lastOp = NoOp

(***************************************************************************)
(* SpecLedger: the material operations of InventorySystem.                  *)
(***************************************************************************)
LedgerNames   == {"iron", "wood"}
LedgerAmounts == {0, 2, 5, 10}
LedgerMaps    == { ItemsData[i].requiredMaterials : i \in {"nail", "new_chisel"} }
                    \cup { << <<"wood", 2>>, <<"iron", 5>> >> }

InitLedger ==
    /\ materials \in { [m \in Materials |-> IF m = "iron" THEN 10 ELSE 0],
                       [m \in Materials |-> IF m = "wood" THEN 5 ELSE 0] }
    /\ items = [i \in StockIds |-> 0]
    /\ tools = <<>>
    /\ money = 0
    /\ InitRest

DoAddMaterial ==
    \E name \in LedgerNames, amount \in LedgerAmounts :
        /\ materials[name] + amount <= MaxMaterial
        /\ Commit(AddMaterial(St, name, amount),
                  Op("addMaterial", name, amount, AddMaterial(St, name, amount).ret))

DoRemoveMaterial ==
    \E name \in LedgerNames, amount \in LedgerAmounts :
        Commit(RemoveMaterial(St, name, amount),
               Op("removeMaterial", name, amount, RemoveMaterial(St, name, amount).ret))

DoConsumeMaterials ==
    \E required \in LedgerMaps :
        Commit(ConsumeMaterials(St, required),
               Op("consumeMaterials", required[Len(required)][1], Len(required),
                  ConsumeMaterials(St, required).ret))

NextLedger == DoAddMaterial \/ DoRemoveMaterial \/ DoConsumeMaterials

SpecLedger == InitLedger /\ [][NextLedger]_vars

\* C1: every material quantity is >= 0 after any sequence of addMaterial,
\* removeMaterial and consumeMaterials calls, and a removeMaterial or
\* consumeMaterials call that returns false changes no material quantity and
\* publishes no event.
C1_NoPartialDebit ==
    /\ [](\A m \in Materials : materials[m] >= 0)
    /\ [][ (lastOp'.op \in {"removeMaterial", "consumeMaterials"} /\ ~lastOp'.ret)
             => (materials' = materials /\ events' = <<>>) ]_vars

\* consumeMaterials has returned false with its first requirement in stock and
\* only its last one short.
C1_Witness ==
    /\ lastOp = Op("consumeMaterials", "wood", 2, FALSE)
    /\ materials["iron"] >= 10
    /\ 0 < materials["wood"] /\ materials["wood"] < 5

(***************************************************************************)
(* SpecTools: the tool operations of InventorySystem and ToolDurability.    *)
(***************************************************************************)
ToolInputs  == {"hammer", "chisel", "saw"}
UseAmounts  == {1, 2, 3}
RepairUses  == {1, 2}
\* addOrReplaceTool(toolName, maxUses); maxUses 0 is the default argument.
ToolOrders  == { <<"hammer", 2>>, <<"hammer", 3>>, <<"chisel", 0>>, <<"chisel", 3>> }

\* Worn tools: hammer 3/30, anvil 2/50, tongs 4/40.
InitTools ==
    /\ materials = [m \in Materials |-> 0]
    /\ items = [i \in StockIds |-> 0]
    /\ tools = [t \in {"hammer", "anvil", "tongs"} |->
                  CASE t = "hammer" -> [uses |-> 3, maxUses |-> 30]
                    [] t = "anvil"  -> [uses |-> 2, maxUses |-> 50]
                    [] t = "tongs"  -> [uses |-> 4, maxUses |-> 40]]
    /\ money = 0
    /\ InitRest

DoAddOrReplaceTool ==
    \E order \in ToolOrders :
        Commit(AddOrReplaceTool(St, order[1], order[2]),
               Op("addOrReplaceTool", order[1], order[2], TRUE))

DoUseTool ==
    \E toolName \in ToolInputs, usesAmount \in UseAmounts :
        Commit(UseTool(St, toolName, usesAmount),
               Op("useTool", toolName, usesAmount, UseTool(St, toolName, usesAmount).ret))

DoRepairTool ==
    \E toolName \in ToolInputs, repairAmount \in RepairUses :
        Commit(RepairTool(St, toolName, repairAmount),
               Op("repairTool", toolName, repairAmount,
                  RepairTool(St, toolName, repairAmount).ret))

\* The tool wear of a craft completion.
DoUseToolsForItem ==
    \E itemId \in ItemIds :
        Commit(UseToolsForItem(St, ItemsData[itemId]),
               Op("useToolsForItem", itemId, 0, TRUE))

NextTools == DoAddOrReplaceTool \/ DoUseTool \/ DoRepairTool \/ DoUseToolsForItem

SpecTools == InitTools /\ [][NextTools]_vars

\* C6: every tool in the ledger has 0 < uses <= maxUses; the useTool call that
\* takes a tool to 0 uses or below removes it and publishes tool:broken exactly
\* once for it, a useTool that leaves uses publishes none, no call publishes
\* tool:broken twice for a tool, and useTool on an absent tool returns false,
\* changes nothing and publishes nothing.
C6_ToolDurability ==
    /\ [](\A t \in DOMAIN tools : 0 < tools[t].uses /\ tools[t].uses <= tools[t].maxUses)
    /\ [][ /\ \A t \in ToolNames \cup ToolInputs : CountEv(events', "tool:broken", t) <= 1
           /\ (lastOp'.op = "useTool" /\ lastOp'.ret) =>
                 /\ lastOp'.arg \in DOMAIN tools
                 /\ IF tools[lastOp'.arg].uses - lastOp'.n <= 0
                    THEN /\ lastOp'.arg \notin DOMAIN tools'
                         /\ CountEv(events', "tool:broken", lastOp'.arg) = 1
                    ELSE /\ lastOp'.arg \in DOMAIN tools'
                         /\ tools'[lastOp'.arg].uses = tools[lastOp'.arg].uses - lastOp'.n
                         /\ CountEv(events', "tool:broken", lastOp'.arg) = 0
           /\ (lastOp'.op = "useTool" /\ ~lastOp'.ret) =>
                 /\ lastOp'.arg \notin DOMAIN tools
                 /\ tools' = tools
                 /\ events' = <<>> ]_vars

\* A useTool has just broken the hammer, taking its uses below 0.
C6_Witness ==
    /\ lastOp = Op("useTool", "hammer", 3, TRUE)
    /\ "hammer" \notin DOMAIN tools
    /\ events = <<Ev("tool:broken", "hammer"), Ev("inventory:updated", "")>>

(***************************************************************************)
(* SpecMoney: the balance, through addMoney, removeMoney and the listeners  *)
(* of purchase:materials, purchase:tool and item:sell.                      *)
(***************************************************************************)
MoneyAmounts == {-500, 0, 500, 1000}

InitMoney ==
    /\ materials = [m \in Materials |-> 0]
    /\ items = [i \in StockIds |-> IF i = "horseshoe" THEN 2 ELSE 0]
    /\ tools = <<>>
    /\ money = 1000
    /\ InitRest

DoAddMoney ==
    \E amount \in MoneyAmounts :
        /\ money + amount <= MaxMoney
        /\ Commit(AddMoney(St, amount), Op("addMoney", "", amount, AddMoney(St, amount).ret))

DoRemoveMoney ==
    \E amount \in MoneyAmounts :
        Commit(RemoveMoney(St, amount),
               Op("removeMoney", "", amount, RemoveMoney(St, amount).ret))

DoPurchaseMaterials ==
    \E cost \in MoneyAmounts :
        /\ materials["iron"] + 10 <= MaxMaterial
        /\ Commit(OnPurchaseMaterials(St, << <<"iron", 10>> >>, cost),
                  Op("purchase:materials", "iron", cost,
                     OnPurchaseMaterials(St, << <<"iron", 10>> >>, cost).ret))

DoPurchaseTool ==
    \E cost \in MoneyAmounts :
        Commit(OnPurchaseTool(St, "hammer", cost),
               Op("purchase:tool", "hammer", cost, OnPurchaseTool(St, "hammer", cost).ret))

DoItemSell ==
    \E price \in MoneyAmounts :
        /\ money + price <= MaxMoney
        /\ Commit(OnItemSell(St, "horseshoe", price),
                  Op("item:sell", "horseshoe", price, OnItemSell(St, "horseshoe", price).ret))

NextMoney ==
    DoAddMoney \/ DoRemoveMoney \/ DoPurchaseMaterials \/ DoPurchaseTool \/ DoItemSell

SpecMoney == InitMoney /\ [][NextMoney]_vars

\* C7: removeMoney(amount) with amount <= 0 or amount above the balance returns
\* false, leaves the balance unchanged and publishes nothing, and any other
\* removeMoney debits exactly the amount; the balance is >= 0 in every state.
C7_MoneyNeverNegative ==
    /\ [](money >= 0)
    /\ [][ lastOp'.op = "removeMoney" =>
             IF lastOp'.n <= 0 \/ lastOp'.n > money
             THEN ~lastOp'.ret /\ money' = money /\ events' = <<>>
             ELSE lastOp'.ret /\ money' = money - lastOp'.n ]_vars

\* removeMoney has refused a non-positive amount while the balance was positive.
C7_Witness ==
    /\ lastOp = Op("removeMoney", "", -500, FALSE)
    /\ money > 0

(***************************************************************************)
(* SpecCoal: the forge by itself, with the ledger's coal.                   *)
(***************************************************************************)
\* coalUsage 2, 3, 5 and the default amount 10 of consumeCoal, in half points.
CoalDraws == {4, 6, 10, 20}

InitCoal ==
    /\ materials \in { [m \in Materials |-> IF m = "coal" THEN c ELSE 0] : c \in {0, 60} }
    /\ items = [i \in StockIds |-> 0]
    /\ tools = <<>>
    /\ money = 0
    /\ InitRest

DoCoalUpdate == Commit(CoalUpdate(St), Op("coal.update", "", 0, TRUE))

DoRefill == Commit(Refill(St), Op("refill", "", 0, Refill(St).ret))

DoConsumeCoal ==
    \E amount \in CoalDraws :
        Commit(ConsumeCoal(St, amount),
               Op("consumeCoal", "", amount, ConsumeCoal(St, amount).ret))

NextCoal == DoCoalUpdate \/ DoRefill \/ DoConsumeCoal

SpecCoal == InitCoal /\ [][NextCoal]_vars

\* C8: the forge level is within [0, 100] in every state, and an update() in
\* which no refill happens leaves the level at or above 0 and at or below its
\* value before the call.
C8_LevelBounds ==
    /\ [](0 <= level /\ level <= FullLevel)
    /\ [][ (lastOp'.op = "coal.update" /\ CountEv(events', "coal:refilled", "") = 0)
             => (0 <= level' /\ level' <= level) ]_vars

\* An update() without refill has just lowered a level that was below the
\* threshold, with no coal left in the ledger.
C8_Witness ==
    /\ lastOp.op = "coal.update"
    /\ events = <<Ev("coal:updated", "")>>
    /\ level < LowThreshold
    /\ materials["coal"] < CoalPerRefill

\* C9: coal:low is published at most once between two successful refills,
\* whether by update() or by consumeCoal(); it is published exactly once by
\* the call that first takes the level to the threshold or below, and the
\* warned flag is cleared by nothing but a successful refill.
C9_LowOncePerEpisode ==
    /\ [](lowsSinceRefill <= 1)
    /\ [][ /\ (level > LowThreshold /\ level' <= LowThreshold /\ ~hasWarnedAboutLowCoal)
                => CountEv(events', "coal:low", "") = 1
           /\ (hasWarnedAboutLowCoal /\ ~hasWarnedAboutLowCoal')
                => (CountEv(events', "coal:refilled", "") = 1 /\ level' = FullLevel) ]_vars

\* The level is below the threshold after a consumeCoal that found the flag
\* set and published no second coal:low.
C9_Witness ==
    /\ lastOp.op = "consumeCoal" /\ lastOp.ret
    /\ level < LowThreshold
    /\ lowsSinceRefill = 1
    /\ hasWarnedAboutLowCoal
    /\ CountEv(events, "coal:low", "") = 0

(***************************************************************************)
(* SpecCraft: CraftingSystem with the ledger, the forge and the tools.      *)
(* The forge is drawn on by the jobs; its depletion over time and its       *)
(* refills are SpecCoal's.                                                  *)
(***************************************************************************)
CraftInputs == ItemIds \cup {UnknownItem}
Quantities == {1, 2}
QueueIndexes == {0, 1}

\* A worn shop: little iron, wood for one chisel, no coal to refill with, the
\* forge at 26, tools near their end (the anvil on its last use).
InitCraft ==
    /\ materials = [m \in Materials |->
                      CASE m = "iron" -> 24 [] m = "wood" -> 5
                        [] m = "coal" -> 0 [] OTHER -> 5]
    /\ items = [i \in StockIds |-> 0]
    /\ tools = [t \in {"hammer", "anvil", "tongs", "file"} |->
                  CASE t = "hammer" -> [uses |-> 3, maxUses |-> 30]
                    [] t = "anvil"  -> [uses |-> 1, maxUses |-> 50]
                    [] t = "tongs"  -> [uses |-> 4, maxUses |-> 40]
                    [] t = "file"   -> [uses |-> 3, maxUses |-> 35]]
    /\ money = 0
    /\ level = 52
    /\ hasWarnedAboutLowCoal = FALSE
    /\ currentCraft = NoJob
    /\ craftingQueue = <<>>
    /\ speedMultiplier = 10
    /\ jobsStarted = 0
    /\ activeContracts = <<>>
    /\ specialContracts = <<>>
    /\ contractTimer = 0
    /\ contractsMade = 0
    /\ InitCatalog
    /\ InitWorkforce
    /\ InitEmitter
    /\ InitStore
    /\ InitEvents
    /\ InitClock
    /\ now = 0
    /\ lowsSinceRefill = 0
    /\ craftTicks = 0
    /\ craftSteady = FALSE
    /\ events = <<>>
    /\ lastOp = NoOp

DoStartCrafting ==
    \E itemId \in CraftInputs, quantity \in Quantities :
        /\ StartCrafting(St, itemId, quantity).ret => jobsStarted < MaxJobs
        /\ Commit(StartCrafting(St, itemId, quantity),
                  Op("startCrafting", itemId, quantity,
                     StartCrafting(St, itemId, quantity).ret))

DoCraftUpdate == Commit(CraftUpdate(St), Op("crafting.update", "", 0, TRUE))

DoResumeCrafting ==
    Commit(ResumeCrafting(St), Op("resumeCrafting", "", 0, ResumeCrafting(St).ret))

DoCancelCurrentCraft ==
    Commit(CancelCurrentCraft(St),
           Op("cancelCurrentCraft", "", 0, CancelCurrentCraft(St).ret))

DoCancelQueuedCraft ==
    \E index \in QueueIndexes :
        Commit(CancelQueuedCraft(St, index),
               Op("cancelQueuedCraft", "", index, CancelQueuedCraft(St, index).ret))

NextCraft ==
    \/ DoStartCrafting
    \/ DoCraftUpdate
    \/ DoResumeCrafting
    \/ DoCancelCurrentCraft
    \/ DoCancelQueuedCraft

SpecCraft == InitCraft /\ [][NextCraft]_vars

\* amount of one material in a recipe's requiredMaterials, 0 when it has none.
RequiredAmount(itemData, name) ==
    LET required == itemData.requiredMaterials
        hits == {i \in 1..Len(required) : required[i][1] = name}
    IN  IF hits = {} THEN 0 ELSE required[CHOOSE i \in hits : TRUE][2]

\* C2 (as stated): whenever startCrafting returns false, no material quantity,
\* fuel level, current job or queue entry has changed.  The code breaks this:
\* the materials are checked for one unit and debited for `quantity` units, one
\* material after the other.
C2_RefusalChangesNothing ==
    [][ (lastOp'.op = "startCrafting" /\ ~lastOp'.ret)
        => /\ materials' = materials
           /\ level' = level
           /\ currentCraft' = currentCraft
           /\ craftingQueue' = craftingQueue ]_vars

\* The step C3 starts from: startCrafting succeeded with no job active.
C3_Started ==
    /\ lastOp'.op = "startCrafting"
    /\ lastOp'.ret
    /\ currentCraft = NoJob

\* What C3 says of that step: the job is current at once, with no progress, for
\* batchSize x q units; each required material is debited by amount x q; the
\* recipe's fuel cost is drawn.
C3_StartEffect ==
    LET itemData == ItemsData[lastOp'.arg]
        q == lastOp'.n
    IN  /\ currentCraft'.itemId = lastOp'.arg
        /\ currentCraft'.progress = 0
        /\ ~currentCraft'.paused
        /\ currentCraft'.quantity = BatchSize(itemData) * q
        /\ craftingQueue' = craftingQueue
        /\ \A m \in Materials :
               materials'[m] = materials[m] - q * RequiredAmount(itemData, m)
        /\ level' = level - CoalUsage(itemData)

\* An update() of a job that has run at speed 1 with the forge at or above the
\* minimum ever since it was started with no job active.
C3_SteadyUpdate ==
    /\ lastOp'.op = "crafting.update"
    /\ craftSteady
    /\ currentCraft # NoJob

\* The update is the craftingTime-th one since the start.
C3_LastTick == 10 * (craftTicks + 1) = currentCraft.craftingTime

\* C3 (as stated): a job started with no job active is current at once and, at
\* speed 1 with the forge never below the minimum, completes on exactly the
\* craftingTime-th update, which adds batchSize x q units of the item to the
\* ledger's items; materials were debited amount x q and fuel drawn once.
C3_CompletesWithItems ==
    [][ /\ C3_Started => C3_StartEffect
        /\ C3_SteadyUpdate
           => /\ level' = level
              /\ materials' = materials
              /\ IF C3_LastTick
                 THEN /\ currentCraft'.jobNo # currentCraft.jobNo
                      /\ items' = [items EXCEPT ![currentCraft.itemId] =
                                                   @ + currentCraft.quantity]
                 ELSE /\ currentCraft' = [currentCraft EXCEPT !.progress = @ + 10]
                      /\ items' = items ]_vars

\* C3 (amended): as stated for recipes that create no tool; a recipe with
\* createsTool delivers no item on its craftingTime-th update but puts that
\* tool, at full durability, into the ledger's tools.
C3_CompletesOnTime ==
    [][ /\ C3_Started => C3_StartEffect
        /\ C3_SteadyUpdate
           => /\ level' = level
              /\ materials' = materials
              /\ IF C3_LastTick
                 THEN LET itemData == ItemsData[currentCraft.itemId]
                      IN  /\ currentCraft'.jobNo # currentCraft.jobNo
                          /\ IF itemData.createsTool = ""
                             THEN items' = [items EXCEPT ![currentCraft.itemId] =
                                                          @ + currentCraft.quantity]
                             ELSE /\ items' = items
                                  /\ itemData.createsTool \in DOMAIN tools'
                                  /\ tools'[itemData.createsTool] =
                                       [uses |-> DefaultDurability(itemData.createsTool),
                                        maxUses |-> DefaultDurability(itemData.createsTool)]
                 ELSE /\ currentCraft' = [currentCraft EXCEPT !.progress = @ + 10]
                      /\ items' = items ]_vars

\* Twenty nails have been delivered by the tenth update of a job for two
\* batches, and a new chisel by the thirtieth update of its job.
C3_Witness ==
    /\ lastOp.op = "crafting.update"
    /\ items["nail"] = 20
    /\ "chisel" \in DOMAIN tools
    /\ currentCraft = NoJob

C5_LockedRefused ==
    [][ (/\ lastOp'.op = "startCrafting"
         /\ lastOp'.arg \in ItemIds
         /\ ~itemUnlocked[lastOp'.arg])
        => /\ ~lastOp'.ret
           /\ materials' = materials
           /\ level' = level
           /\ currentCraft' = currentCraft
           /\ craftingQueue' = craftingQueue
           /\ jobsStarted' = jobsStarted
           /\ ~CanCraft(St, lastOp'.arg).canCraft
           /\ CanCraft(St, lastOp'.arg).reason = "Blueprint not unlocked" ]_vars

\* bullets were refused although the tools, the materials and the fuel for
\* them are all there.
C5_Witness ==
    /\ lastOp.op = "startCrafting"
    /\ lastOp.arg = "bullets"
    /\ ~lastOp.ret
    /\ GetMissingTools(St, ItemsData["bullets"]) = <<>>
    /\ HasMaterials(St, ItemsData["bullets"].requiredMaterials)
    /\ HasEnoughCoal(St)

(***************************************************************************)
(* src/data/contracts.js                                                   *)
(***************************************************************************)
\* The definitions for the items the model keeps; durations in minutes,
\* basePayoutMultiplier in hundredths.
ContractDefinitions ==
    << [ id |-> "store_nails", item |-> "nail",
         minQuantity |-> 40, maxQuantity |-> 100,
         minDuration |-> 5, maxDuration |-> 10, basePayoutMultiplier |-> 110 ],
       [ id |-> "sheriff_bullets", item |-> "bullets",
         minQuantity |-> 10, maxQuantity |-> 30,
         minDuration |-> 8, maxDuration |-> 15, basePayoutMultiplier |-> 125 ],
       [ id |-> "railroad_spikes", item |-> "nail",
         minQuantity |-> 100, maxQuantity |-> 200,
         minDuration |-> 10, maxDuration |-> 18, basePayoutMultiplier |-> 120 ] >>

\* The definitions generateRandomContract chooses from: those for an available
\* item, or, if there is none, those for nail, horseshoe and hinge.
AvailableContracts(availableItems) ==
    LET all == {ContractDefinitions[i] : i \in 1..Len(ContractDefinitions)}
        matching == IF availableItems # {}
                    THEN {d \in all : d.item \in availableItems}
                    ELSE all
    IN  IF matching = {}
        THEN {d \in all : d.item \in {"nail", "horseshoe", "hinge"}}
        ELSE matching

\* The contract made from one outcome of the random draws: a definition, a
\* quantity and a duration within its ranges (timeMultiplier is 1).
GenerateRandomContract(S, draw) ==
    [ id |-> S.made + 1,
      item |-> draw.def.item,
      quantity |-> draw.quantity,
      expiryTime |-> S.now + draw.durationMinutes,
      payoutMultiplier |-> draw.def.basePayoutMultiplier,
      payout |-> 0 ]

\* basePrice * quantity * multiplier, in cents.
CalculateContractPayout(contract, itemData) ==
    (itemData.basePrice * contract.quantity * contract.payoutMultiplier) \div 100

(***************************************************************************)
(* ContractSystem (src/systems/ToolDurability.js)                           *)
(***************************************************************************)
ContractInterval == 180
MaxContracts == 3

\* unlocked items that create no tool
GetAvailableItemsForContracts(S) ==
    {i \in ItemIds : S.unlocked[i] /\ ItemsData[i].createsTool = ""}

\* Mutant: a contract is generated whatever the number of active ones.
GenerateContractUncapped(S, draw) ==
    LET contract == GenerateRandomContract(S, draw)
    IN  IF contract.item \notin ItemIds
        THEN S
        ELSE Publish([S EXCEPT
                        !.active = Append(@, [contract EXCEPT !.payout =
                            CalculateContractPayout(contract, ItemsData[contract.item])]),
                        !.made = @ + 1],
                     "contract:available", ToString(contract.id))

GenerateContract(S, draw) ==
    IF Len(S.active) >= MaxContracts
    THEN S
    ELSE LET contract == GenerateRandomContract(S, draw)
         IN  IF contract.item \notin ItemIds
             THEN S
             ELSE Publish([S EXCEPT
                             !.active = Append(@, [contract EXCEPT !.payout =
                                 CalculateContractPayout(contract, ItemsData[contract.item])]),
                             !.made = @ + 1],
                          "contract:available", ToString(contract.id))

\* contract.expiryTime <= now
Expired(S, contract) == contract.expiryTime <= S.now

\* The loop over expiredContracts: two events for each.
RECURSIVE NotifyExpired(_, _)
NotifyExpired(S, expiredContracts) ==
    IF expiredContracts = <<>>
    THEN S
    ELSE NotifyExpired(
             Publish(Publish(S, "contract:expired", ToString(Head(expiredContracts).id)),
                     "notification:warning", ""),
             Tail(expiredContracts))

CheckExpiredContracts(S) ==
    LET isExpired(c) == Expired(S, c)
        stays(c) == ~Expired(S, c)
        expiredContracts == SelectSeq(S.active, isExpired) \o SelectSeq(S.special, isExpired)
    IN  NotifyExpired([S EXCEPT !.active = SelectSeq(@, stays),
                                !.special = SelectSeq(@, stays)],
                      expiredContracts)

\* Mutant: the update that generates a contract leaves the sweep to the next one.
ContractsUpdateSweepLater(S, draw) ==
    IF S.timer + 1 >= ContractInterval
    THEN GenerateContract([S EXCEPT !.timer = 0], draw)
    ELSE CheckExpiredContracts([S EXCEPT !.timer = @ + 1])

\* update(); draw is what the random draws of generateRandomContract give if
\* this update comes to them.
ContractsUpdate(S, draw) ==
    LET S1 == [S EXCEPT !.timer = @ + 1]
        S2 == IF S1.timer >= ContractInterval
              THEN GenerateContract([S1 EXCEPT !.timer = 0], draw)
              ELSE S1
    IN  CheckExpiredContracts(S2)

\* findIndex: the first position of the id in the list, 0 for -1.
FindIndex(list, contractId) ==
    LET hits == {i \in 1..Len(list) : list[i].id = contractId}
    IN  IF hits = {} THEN 0 ELSE CHOOSE i \in hits : \A j \in hits : i <= j

\* splice(index, 1)
Splice(list, index) == SubSeq(list, 1, index - 1) \o SubSeq(list, index + 1, Len(list))

RejectContract(S, contractId) ==
    LET contractIndex == FindIndex(S.active, contractId)
        specialIndex == FindIndex(S.special, contractId)
    IN  IF contractIndex # 0
        THEN Return(Publish(Publish([S EXCEPT !.active = Splice(@, contractIndex)],
                                    "contract:rejected", ToString(contractId)),
                            "notification:info", ""), TRUE)
        ELSE IF specialIndex # 0
        THEN Return(Publish(Publish([S EXCEPT !.special = Splice(@, specialIndex)],
                                    "contract:rejected", ToString(contractId)),
                            "notification:info", ""), TRUE)
        ELSE Return(Publish(S, "notification:error", "Contract not found."), FALSE)

\* contract.payout 0 stands for a contract that comes without a payout.
AddSpecialContract(S, contract) ==
    IF contract.item \notin ItemIds
    THEN S
    ELSE LET priced == IF contract.payout = 0
                       THEN [contract EXCEPT !.payout =
                               CalculateContractPayout(contract, ItemsData[contract.item])]
                       ELSE contract
         IN  Publish(Publish([S EXCEPT !.special = Append(@, priced), !.made = @ + 1],
                             "contract:special-available", ToString(contract.id)),
                     "notification:info", "")

(***************************************************************************)
(* SpecContracts: ContractSystem under a wall clock that moves on between   *)
(* the calls.                                                               *)
(***************************************************************************)
\* Outcomes of the random draws of generateRandomContract.
ContractDraws ==
    { [def |-> ContractDefinitions[1], quantity |-> 40, durationMinutes |-> 5],
      [def |-> ContractDefinitions[2], quantity |-> 10, durationMinutes |-> 8],
      [def |-> ContractDefinitions[3], quantity |-> 100, durationMinutes |-> 18] }

\* Special contracts as checkForSpecialContracts and the events make them, with
\* the minutes they run; "saddle" is no item of items.js.
SpecialOffers ==
    { [item |-> "bullets", quantity |-> 2, payoutMultiplier |-> 150, payout |-> 0,
       durationMinutes |-> 2],
      [item |-> "saddle", quantity |-> 1, payoutMultiplier |-> 100, payout |-> 500,
       durationMinutes |-> 2] }

Contract(id, item, quantity, expiryTime, payoutMultiplier) ==
    [ id |-> id, item |-> item, quantity |-> quantity, expiryTime |-> expiryTime,
      payoutMultiplier |-> payoutMultiplier,
      payout |-> (ItemsData[item].basePrice * quantity * payoutMultiplier) \div 100 ]

\* A board in the middle of a game, below the cap or at it: standard contracts
\* and a special one that run out within the next minutes, the generation timer
\* two updates before the interval.
InitContracts ==
    /\ materials = [m \in Materials |-> 0]
    /\ items = [i \in StockIds |-> 0]
    /\ tools = <<>>
    /\ money = 0
    /\ level = 200
    /\ hasWarnedAboutLowCoal = FALSE
    /\ currentCraft = NoJob
    /\ craftingQueue = <<>>
    /\ speedMultiplier = 10
    /\ jobsStarted = 0
    /\ activeContracts \in
         { << Contract(1, "nail", 40, 1, 110), Contract(2, "nail", 100, 3, 120) >>,
           << Contract(1, "nail", 40, 1, 110), Contract(2, "nail", 100, 3, 120),
              Contract(4, "nail", 40, 2, 110) >> }
    /\ specialContracts = << Contract(3, "bullets", 2, 2, 150) >>
    /\ contractTimer = ContractInterval - 2
    /\ contractsMade = 4
    /\ InitCatalog
    /\ InitWorkforce
    /\ InitEmitter
    /\ InitStore
    /\ InitEvents
    /\ InitClock
    /\ now = 0
    /\ lowsSinceRefill = 0
    /\ craftTicks = 0
    /\ craftSteady = FALSE
    /\ events = <<>>
    /\ lastOp = NoOp

DoContractsUpdate ==
    \E draw \in ContractDraws :
        /\ draw.def \in AvailableContracts(GetAvailableItemsForContracts(St))
        /\ contractTimer < MaxTimer \/ contractTimer >= ContractInterval - MaxTimer
        /\ ContractsUpdate(St, draw).made <= MaxContractIds
        /\ Commit(ContractsUpdate(St, draw), Op("contracts.update", "", 0, TRUE))

DoRejectContract ==
    \E contractId \in 1..MaxContractIds :
        Commit(RejectContract(St, contractId),
               Op("rejectContract", "", contractId, RejectContract(St, contractId).ret))

DoAddSpecialContract ==
    \E offer \in SpecialOffers :
        /\ contractsMade < MaxContractIds
        /\ Commit(AddSpecialContract(St,
                      [ id |-> contractsMade + 1, item |-> offer.item,
                        quantity |-> offer.quantity,
                        expiryTime |-> now + offer.durationMinutes,
                        payoutMultiplier |-> offer.payoutMultiplier,
                        payout |-> offer.payout ]),
                  Op("addSpecialContract", offer.item, 0, TRUE))

\* A minute of wall-clock time passes between two calls.
DoClockPasses ==
    /\ now < MaxNow
    /\ now' = now + 1
    /\ events' = <<>>
    /\ lastOp' = Op("clock", "", 0, TRUE)
    /\ UNCHANGED <<materials, items, tools, money, level, hasWarnedAboutLowCoal,
                   currentCraft, craftingQueue, speedMultiplier, jobsStarted,
                   activeContracts, specialContracts, contractTimer, contractsMade,
                   unlockedBlueprints, itemUnlocked, workers, hiringDiscounts,
                   listeners, handlersMade, delivered,
                   storefrontItems, demandMultipliers, customerTimer,
                   activeEvents, eventCheckTimer,
                   time, isRunning,
                   lowsSinceRefill, craftTicks, craftSteady>>

NextContracts ==
    \/ DoContractsUpdate
    \/ DoRejectContract
    \/ DoAddSpecialContract
    \/ DoClockPasses

SpecContracts == InitContracts /\ [][NextContracts]_vars

\* The contracts of both lists.
AllContracts == activeContracts \o specialContracts

\* The ids of the contracts of both lists that the clock has overtaken.
ExpiredIds ==
    { AllContracts[i].id : i \in { j \in 1..Len(AllContracts) :
                                       AllContracts[j].expiryTime <= now } }

\* C10: every update() removes each standard or special contract whose expiry
\* instant is at or before the wall-clock time and publishes exactly one
\* contract:expired for it and none for any other, whatever the generation
\* timer reads and whether or not the cap is reached; the other contracts stay,
\* in their order.
C10_UpdateSweepsExpired ==
    [][ lastOp'.op = "contracts.update"
        => /\ \A i \in 1..Len(activeContracts') : activeContracts'[i].expiryTime > now'
           /\ \A i \in 1..Len(specialContracts') : specialContracts'[i].expiryTime > now'
           /\ \A id \in ExpiredIds :
                  CountEv(events', "contract:expired", ToString(id)) = 1
           /\ CountName(events', "contract:expired") = Cardinality(ExpiredIds)
           /\ \A i \in 1..Len(AllContracts) :
                  AllContracts[i].expiryTime > now
                  => \E j \in 1..Len(activeContracts' \o specialContracts') :
                         (activeContracts' \o specialContracts')[j] = AllContracts[i]
      ]_vars

\* An update that reset the generation timer and offered a new contract has
\* also removed a contract that had run out.
C10_Witness ==
    /\ lastOp.op = "contracts.update"
    /\ contractTimer = 0
    /\ CountName(events, "contract:available") = 1
    /\ CountName(events, "contract:expired") >= 1

(***************************************************************************)
(* WorkerSystem: hiring (src/systems/WorkerSystem.js)                       *)
(***************************************************************************)
\* hireCost of the worker types, in cents.
\* hireCost in cents; fatigue in hundredths of a point, the rates in hundredths.
WorkerTypes ==
    [ apprentice |-> [hireCost |-> 2000, speedMultiplier |-> 8, fatigueRate |-> 120,
                      recoveryRate |-> 100, maxFatigue |-> 10000],
      journeyman |-> [hireCost |-> 5000, speedMultiplier |-> 10, fatigueRate |-> 100,
                      recoveryRate |-> 120, maxFatigue |-> 12000],
      master     |-> [hireCost |-> 10000, speedMultiplier |-> 13, fatigueRate |-> 80,
                      recoveryRate |-> 150, maxFatigue |-> 15000] ]

\* currentTask = null
NoTask == [type |-> "", itemId |-> ""]

\* hiringDiscounts[key] = {multiplier, expiryTime}; multiplier in hundredths.
PutDiscount(discounts, key, multiplier, expiryTime) ==
    [k \in DOMAIN discounts \cup {key} |->
        IF k = key
        THEN [multiplier |-> multiplier, expiryTime |-> expiryTime]
        ELSE discounts[k]]

SetHiringDiscount(S, workerTypeId, multiplier, expiryTime) ==
    Publish([S EXCEPT !.discounts = PutDiscount(@, workerTypeId, multiplier, expiryTime)],
            "notification:info", "")

\* hiringDiscounts[key] && hiringDiscounts[key].expiryTime > new Date()
DiscountRuns(S, key) ==
    key \in DOMAIN S.discounts /\ S.discounts[key].expiryTime > S.now

\* Mutant: the general discount is looked up before the one of the type.
GetHiringDiscountAllFirst(S, workerTypeId) ==
    IF DiscountRuns(S, "all")
    THEN S.discounts["all"].multiplier
    ELSE IF DiscountRuns(S, workerTypeId)
    THEN S.discounts[workerTypeId].multiplier
    ELSE 0

\* 0 stands for null.
GetHiringDiscount(S, workerTypeId) ==
    IF DiscountRuns(S, workerTypeId)
    THEN S.discounts[workerTypeId].multiplier
    ELSE IF DiscountRuns(S, "all")
    THEN S.discounts["all"].multiplier
    ELSE 0

\* The loop of updateHiringDiscounts: the expired keys go, one notice for each.
RECURSIVE NotifyDiscountsOver(_, _)
NotifyDiscountsOver(S, keys) ==
    IF keys = {}
    THEN S
    ELSE LET k == CHOOSE x \in keys : TRUE
         IN  NotifyDiscountsOver(Publish(S, "notification:info", ""), keys \ {k})

UpdateHiringDiscounts(S) ==
    LET over == {k \in DOMAIN S.discounts : S.discounts[k].expiryTime <= S.now}
    IN  NotifyDiscountsOver(
            [S EXCEPT !.discounts = [k \in DOMAIN S.discounts \ over |-> S.discounts[k]]],
            over)

HireWorker(S, workerTypeId) ==
    IF workerTypeId \notin DOMAIN WorkerTypes
    THEN Return(Publish(S, "notification:error", "Unknown worker type"), FALSE)
    ELSE LET discount == GetHiringDiscount(S, workerTypeId)
             hireCost == IF discount # 0
                         THEN (WorkerTypes[workerTypeId].hireCost * discount) \div 100
                         ELSE WorkerTypes[workerTypeId].hireCost
         IN  IF S.money < hireCost
             THEN Return(Publish(S, "notification:error", "Not enough money"), FALSE)
             ELSE LET worker == [ id |-> Len(S.workers) + 1, type |-> workerTypeId,
                                  fatigue |-> 0, currentTask |-> NoTask, resting |-> FALSE,
                                  highFatigueWarning |-> FALSE, wasResting |-> FALSE ]
                      S1 == RemoveMoney([S EXCEPT !.workers = Append(@, worker)], hireCost)
                  IN  Return(Publish(Publish(S1, "worker:hired", workerTypeId),
                                     "notification:success", ""), TRUE)

(***************************************************************************)
(* SpecWorkers: hiring under discounts that the wall clock lets run out.    *)
(***************************************************************************)
HireInputs == {"apprentice", "master", "smith"}

\* The discounts the events set: the key, the multiplier, the minutes it runs.
DiscountOffers ==
    { [key |-> "apprentice", multiplier |-> 70, minutes |-> 2],
      [key |-> "all", multiplier |-> 50, minutes |-> 1] }

InitWorkers ==
    /\ materials = [m \in Materials |-> 0]
    /\ items = [i \in StockIds |-> 0]
    /\ tools = <<>>
    /\ money = 6000
    /\ InitRest

DoHireWorker ==
    \E workerTypeId \in HireInputs :
        Commit(HireWorker(St, workerTypeId),
               Op("hireWorker", workerTypeId, 0, HireWorker(St, workerTypeId).ret))

DoSetHiringDiscount ==
    \E offer \in DiscountOffers :
        Commit(SetHiringDiscount(St, offer.key, offer.multiplier, now + offer.minutes),
               Op("setHiringDiscount", offer.key, offer.multiplier, TRUE))

DoUpdateHiringDiscounts ==
    Commit(UpdateHiringDiscounts(St), Op("updateHiringDiscounts", "", 0, TRUE))

NextWorkers ==
    \/ DoHireWorker
    \/ DoSetHiringDiscount
    \/ DoUpdateHiringDiscounts
    \/ DoClockPasses

SpecWorkers == InitWorkers /\ [][NextWorkers]_vars

\* The multiplier C11 names, in hundredths: the type's unexpired discount, else
\* the unexpired "all" discount, else 1.
C11_Multiplier(workerTypeId) ==
    IF workerTypeId \in DOMAIN hiringDiscounts
       /\ hiringDiscounts[workerTypeId].expiryTime > now
    THEN hiringDiscounts[workerTypeId].multiplier
    ELSE IF "all" \in DOMAIN hiringDiscounts /\ hiringDiscounts["all"].expiryTime > now
    THEN hiringDiscounts["all"].multiplier
    ELSE 100

SpecialItems ==
    [ rifle |-> [quantity |-> 2, payoutMultiplier |-> 150, durationMinutes |-> 30],
      revolver |-> [quantity |-> 1, payoutMultiplier |-> 140, durationMinutes |-> 20],
      decorativeHorseshoe |->
          [quantity |-> 3, payoutMultiplier |-> 130, durationMinutes |-> 25] ]

CheckForSpecialContracts(S, itemId) ==
    IF itemId \in DOMAIN SpecialItems
    THEN AddSpecialContract(S,
             [ id |-> S.made + 1, item |-> itemId,
               quantity |-> SpecialItems[itemId].quantity,
               expiryTime |-> S.now + SpecialItems[itemId].durationMinutes,
               payoutMultiplier |-> SpecialItems[itemId].payoutMultiplier,
               payout |-> 0 ])
    ELSE S

\* emit('blueprint:unlocked', itemId): CraftingSystem announces the item,
\* ContractSystem looks for an introductory contract.
EmitBlueprintUnlocked(S, itemId) ==
    LET S1 == Publish(S, "blueprint:unlocked", itemId)
        S2 == IF itemId \in ItemIds
              THEN Publish(S1, "notification:success", "New item unlocked")
              ELSE S1
    IN  CheckForSpecialContracts(S2, itemId)

\* Mutant: the blueprint is unlocked again, whether or not it already is.
UnlockBlueprintAgain(S, itemId) ==
    IF itemId \notin ItemIds
    THEN Return(S, FALSE)
    ELSE Return(EmitBlueprintUnlocked(
                    [S EXCEPT !.blueprints = @ \cup {itemId}, !.unlocked[itemId] = TRUE],
                    itemId), TRUE)

UnlockBlueprint(S, itemId) ==
    IF itemId \in S.blueprints
    THEN Return(S, FALSE)
    ELSE IF itemId \notin ItemIds
    THEN Return(S, FALSE)
    ELSE Return(EmitBlueprintUnlocked(
                    [S EXCEPT !.blueprints = @ \cup {itemId}, !.unlocked[itemId] = TRUE],
                    itemId), TRUE)

\* 'inventory:purchase-blueprint' is emitted with the price and a callback that
\* unlocks the blueprint; no system subscribes to it, so nothing answers.
PurchaseBlueprint(S, itemId) ==
    IF itemId \in S.blueprints
    THEN Return(Publish(S, "notification:error", "You already own this blueprint."), FALSE)
    ELSE IF itemId \notin ItemIds
    THEN Return(Publish(S, "notification:error", "Invalid blueprint."), FALSE)
    ELSE IF ItemsData[itemId].blueprintPrice = 0
    THEN Return(Publish(S, "notification:error", "Not available for purchase."), FALSE)
    ELSE Return(Publish(S, "inventory:purchase-blueprint", itemId), TRUE)

\* Mutant: the set is replaced, the flags of the items are left as they are.
BlueprintDeserializeKeepsFlags(S, ids) ==
    [S EXCEPT !.blueprints = ids]

\* BlueprintSystem.deserialize of {unlockedBlueprints: ids}.
BlueprintDeserialize(S, ids) ==
    [S EXCEPT !.blueprints = ids, !.unlocked = [i \in ItemIds |-> i \in ids]]

(***************************************************************************)
(* SpecCatalog: the blueprints and the money that buys them.                *)
(***************************************************************************)
BlueprintInputs == ItemIds \cup {UnknownItem}

\* Saved sets of unlocked blueprints.
SavedBlueprints == { {"nail"}, {"nail", "new_chisel"}, {"nail", "new_chisel", "bullets"},
                     {"nail", UnknownItem} }

InitCatalogShop ==
    /\ materials = [m \in Materials |-> 0]
    /\ items = [i \in StockIds |-> 0]
    /\ tools = <<>>
    /\ money = 2000
    /\ InitRest

DoUnlockBlueprint ==
    \E itemId \in BlueprintInputs :
        Commit(UnlockBlueprint(St, itemId),
               Op("unlockBlueprint", itemId, 0, UnlockBlueprint(St, itemId).ret))

DoPurchaseBlueprint ==
    \E itemId \in BlueprintInputs :
        Commit(PurchaseBlueprint(St, itemId),
               Op("purchaseBlueprint", itemId, 0, PurchaseBlueprint(St, itemId).ret))

DoBlueprintDeserialize ==
    \E ids \in SavedBlueprints :
        Commit(BlueprintDeserialize(St, ids), Op("blueprints.deserialize", "", 0, TRUE))

NextCatalog ==
    \/ DoUnlockBlueprint
    \/ DoPurchaseBlueprint
    \/ DoBlueprintDeserialize
    \/ DoAddMoney
    \/ DoRemoveMoney

SpecCatalog == InitCatalogShop /\ [][NextCatalog]_vars

\* C12: unlockBlueprint on an id that is unlocked already, or on an unknown id,
\* returns false, changes neither the unlocked set nor any item's flag and
\* publishes no blueprint:unlocked; and a call on a known id always leaves it
\* in the set, so that a second call on the same id is such a call.
C12_UnlockIdempotent ==
    [][ lastOp'.op = "unlockBlueprint"
        => /\ (lastOp'.arg \in unlockedBlueprints \/ lastOp'.arg \notin ItemIds)
              => /\ ~lastOp'.ret
                 /\ unlockedBlueprints' = unlockedBlueprints
                 /\ itemUnlocked' = itemUnlocked
                 /\ CountName(events', "blueprint:unlocked") = 0
           /\ lastOp'.arg \in ItemIds => lastOp'.arg \in unlockedBlueprints'
           /\ lastOp'.ret <=> CountName(events', "blueprint:unlocked") = 1 ]_vars

\* unlockBlueprint("bullets") was refused because bullets is unlocked already.
C12_Witness ==
    /\ lastOp.op = "unlockBlueprint"
    /\ lastOp.arg = "bullets"
    /\ ~lastOp.ret
    /\ "bullets" \in unlockedBlueprints
    /\ itemUnlocked["bullets"]

\* C18 (as stated): purchaseBlueprint(id) for a locked item with a blueprint
\* price ends with the blueprint unlocked and the balance reduced by exactly the
\* price when the funds suffice, and with the blueprint locked and the balance
\* unchanged when they do not.  The code breaks this: nothing deducts the price
\* and nothing unlocks the blueprint.
C18_PurchaseUnlocksIffPaid ==
    [][ (/\ lastOp'.op = "purchaseBlueprint"
         /\ lastOp'.arg \in ItemIds
         /\ lastOp'.arg \notin unlockedBlueprints
         /\ ItemsData[lastOp'.arg].blueprintPrice > 0)
        => IF money >= ItemsData[lastOp'.arg].blueprintPrice
           THEN /\ lastOp'.arg \in unlockedBlueprints'
                /\ money' = money - ItemsData[lastOp'.arg].blueprintPrice
           ELSE /\ lastOp'.arg \notin unlockedBlueprints'
                /\ money' = money ]_vars

(***************************************************************************)
(* serialize / JSON / deserialize of InventorySystem, CraftingSystem and    *)
(* ContractSystem.  In a snapshot a Date is the text JSON.stringify makes   *)
(* of it, here the decimal digits of the instant; null is NoJob.            *)
(***************************************************************************)
\* Date.prototype.toJSON: the instant as text.
RECURSIVE DateToJSON(_)
DateToJSON(t) ==
    IF t < 10 THEN <<t>> ELSE Append(DateToJSON(t \div 10), t % 10)

\* new Date(text): the instant the text names.
RECURSIVE DateParse(_)
DateParse(text) ==
    IF Len(text) = 1
    THEN text[1]
    ELSE 10 * DateParse(SubSeq(text, 1, Len(text) - 1)) + text[Len(text)]

\* JSON.parse(JSON.stringify(contract)): expiryTime comes back as a string.
ContractToJSON(contract) ==
    [contract EXCEPT !.expiryTime = [type |-> "string", text |-> DateToJSON(@)]]

ContractsToJSON(list) == [i \in 1..Len(list) |-> ContractToJSON(list[i])]

\* if (contract.expiryTime && typeof contract.expiryTime === 'string')
\*     contract.expiryTime = new Date(contract.expiryTime)
ReviveContract(contract) ==
    IF contract.expiryTime.type = "string"
    THEN [contract EXCEPT !.expiryTime = DateParse(@.text)]
    ELSE contract

ReviveContracts(list) == [i \in 1..Len(list) |-> ReviveContract(list[i])]

InventorySerialize(S) ==
    [materials |-> S.materials, items |-> S.items, tools |-> S.tools, money |-> S.money]

InventoryDeserialize(S, data) ==
    Publish([S EXCEPT !.materials = data.materials, !.items = data.items,
                      !.tools = data.tools, !.money = data.money],
            "inventory:updated", "")

CraftingSerialize(S) ==
    [currentCraft |-> S.cur, craftingQueue |-> S.queue, speedMultiplier |-> S.speed]

\* Mutant: the loaded job starts over.
CraftingDeserializeRestart(S, data) ==
    LET S1 == IF data.currentCraft # NoJob
              THEN [S EXCEPT !.cur = [data.currentCraft EXCEPT !.progress = 0]]
              ELSE S
        S2 == [S1 EXCEPT !.queue = data.craftingQueue, !.speed = data.speedMultiplier]
        S3 == IF S2.cur # NoJob THEN Publish(S2, "crafting:started", S2.cur.itemId) ELSE S2
    IN  IF Len(S3.queue) > 0 THEN Publish(S3, "crafting:queue-updated", "") ELSE S3

\* if (data.currentCraft) skips a null job: the instance keeps the job it has.
CraftingDeserialize(S, data) ==
    LET S1 == IF data.currentCraft # NoJob
              THEN [S EXCEPT !.cur = data.currentCraft]
              ELSE S
        S2 == [S1 EXCEPT !.queue = data.craftingQueue, !.speed = data.speedMultiplier]
        S3 == IF S2.cur # NoJob THEN Publish(S2, "crafting:started", S2.cur.itemId) ELSE S2
    IN  IF Len(S3.queue) > 0 THEN Publish(S3, "crafting:queue-updated", "") ELSE S3

ContractSerialize(S) ==
    [activeContracts |-> S.active, specialContracts |-> S.special,
     contractTimer |-> S.timer]

ContractDeserialize(S, data) ==
    [S EXCEPT !.active = ReviveContracts(data.activeContracts),
              !.special = ReviveContracts(data.specialContracts),
              !.timer = data.contractTimer]

\* JSON.parse(JSON.stringify(...)) of the three snapshots.
SnapshotJSON(S) ==
    [ inventory |-> InventorySerialize(S),
      crafting |-> CraftingSerialize(S),
      contracts |->
          [ContractSerialize(S) EXCEPT !.activeContracts = ContractsToJSON(@),
                                       !.specialContracts = ContractsToJSON(@)] ]

\* new InventorySystem, new CraftingSystem, new ContractSystem.
FreshInstances(S) ==
    [S EXCEPT !.materials = [m \in Materials |->
                               CASE m = "iron" -> 500 [] m = "coal" -> 250
                                 [] m = "wood" -> 300 [] OTHER -> 50],
              !.items = [i \in StockIds |-> IF i = "horseshoe" THEN 2 ELSE 0],
              !.tools = [t \in {"hammer", "anvil", "tongs"} |->
                           CASE t = "hammer" -> [uses |-> 25, maxUses |-> 30]
                             [] t = "anvil"  -> [uses |-> 50, maxUses |-> 50]
                             [] t = "tongs"  -> [uses |-> 40, maxUses |-> 40]],
              !.money = 10000,
              !.cur = NoJob, !.queue = <<>>, !.speed = 10,
              !.active = <<>>, !.special = <<>>, !.timer = 0]

\* The three systems are saved, built anew and loaded from the snapshot.
Reload(S) ==
    LET data == SnapshotJSON(S)
    IN  ContractDeserialize(
            CraftingDeserialize(
                InventoryDeserialize(FreshInstances(S), data.inventory),
                data.crafting),
            data.contracts)

(***************************************************************************)
(* SpecSave: a shop with jobs and contracts that is saved and loaded.       *)
(***************************************************************************)
InitSave ==
    /\ materials = [m \in Materials |-> IF m = "iron" THEN 4 ELSE 0]
    /\ items = [i \in StockIds |-> 0]
    /\ tools = [t \in {"hammer", "anvil", "tongs"} |->
                  CASE t = "hammer" -> [uses |-> 3, maxUses |-> 30]
                    [] t = "anvil"  -> [uses |-> 2, maxUses |-> 50]
                    [] t = "tongs"  -> [uses |-> 4, maxUses |-> 40]]
    /\ money = 1000
    /\ level = 48
    /\ hasWarnedAboutLowCoal = FALSE
    /\ currentCraft = NoJob
    /\ craftingQueue = <<>>
    /\ speedMultiplier = 10
    /\ jobsStarted = 0
    /\ activeContracts = << Contract(1, "nail", 40, 12, 110) >>
    /\ specialContracts = << Contract(2, "bullets", 2, 3, 150) >>
    /\ contractTimer = 7
    /\ contractsMade = 3
    /\ InitCatalog
    /\ InitWorkforce
    /\ InitEmitter
    /\ InitStore
    /\ InitEvents
    /\ InitClock
    /\ now = 0
    /\ lowsSinceRefill = 0
    /\ craftTicks = 0
    /\ craftSteady = FALSE
    /\ events = <<>>
    /\ lastOp = NoOp

DoReload == Commit(Reload(St), Op("reload", "", 0, TRUE))

NextSave ==
    \/ DoStartCrafting
    \/ DoCraftUpdate
    \/ DoCancelCurrentCraft
    \/ DoRejectContract
    \/ DoAddSpecialContract
    \/ DoReload

SpecSave == InitSave /\ [][NextSave]_vars

\* C13: saving the ledger, the queue and the board, passing the snapshots
\* through JSON and loading them into fresh instances gives back the same
\* materials, items, tools and money, the same current job with its progress,
\* the same queue, and the same standard and special contracts with the same
\* expiry instants.
C13_RoundTrip ==
    [][ lastOp'.op = "reload"
        => /\ materials' = materials
           /\ items' = items
           /\ tools' = tools
           /\ money' = money
           /\ currentCraft' = currentCraft
           /\ craftingQueue' = craftingQueue
           /\ activeContracts' = activeContracts
           /\ specialContracts' = specialContracts ]_vars

\* A shop was loaded with a job under way, a job waiting, a standard contract
\* and two special ones.
C13_Witness ==
    /\ lastOp.op = "reload"
    /\ currentCraft # NoJob
    /\ currentCraft.progress > 0
    /\ Len(craftingQueue) = 1
    /\ Len(activeContracts) = 1
    /\ Len(specialContracts) = 2
    /\ activeContracts[1].expiryTime = 12

(***************************************************************************)
(* EventEmitter.  A callback is [id, kind]: "plain" returns, "throws"       *)
(* raises, "leaves" calls the unsubscribe function that on returned to it,  *)
(* "once" is the wrapper that once registers.                               *)
(***************************************************************************)
MaxHandlers == 3

EventNames == {"game:tick", "game:saved"}

OnKinds == {"plain", "throws", "leaves"}

\* everything but the emitter and lastOp
shopVars == <<materials, items, tools, money, level, hasWarnedAboutLowCoal,
              currentCraft, craftingQueue, speedMultiplier, jobsStarted,
              activeContracts, specialContracts, contractTimer, contractsMade,
              unlockedBlueprints, itemUnlocked, workers, hiringDiscounts, now,
              storefrontItems, demandMultipliers, customerTimer,
              activeEvents, eventCheckTimer,
              time, isRunning,
              lowsSinceRefill, craftTicks, craftSteady, events>>

\* listeners.indexOf(callback), from 1; 0 when absent.
IndexOf(list, id) ==
    IF \E i \in 1..Len(list) : list[i].id = id
    THEN CHOOSE i \in 1..Len(list) :
             list[i].id = id /\ \A j \in 1..(i - 1) : list[j].id # id
    ELSE 0

\* The function on returns: splice the callback out if it is still there.
Unsubscribe(list, id) ==
    IF IndexOf(list, id) # 0 THEN Splice(list, IndexOf(list, id)) ELSE list

\* this.events.get(eventName), created when missing.
ListenersOf(L, eventName) ==
    IF eventName \in DOMAIN L THEN L[eventName] ELSE <<>>

SetListeners(L, eventName, list) ==
    [n \in DOMAIN L \cup {eventName} |-> IF n = eventName THEN list ELSE L[n]]

On(L, eventName, callback) ==
    SetListeners(L, eventName, Append(ListenersOf(L, eventName), callback))

Off(L, eventName, id) ==
    IF eventName \notin DOMAIN L
    THEN [listeners |-> L, ret |-> FALSE]
    ELSE IF IndexOf(L[eventName], id) = 0
    THEN [listeners |-> L, ret |-> FALSE]
    ELSE [listeners |-> SetListeners(L, eventName, Unsubscribe(L[eventName], id)),
          ret |-> TRUE]

\* What running a callback does to the array it is in.
Invoke(list, callback) ==
    IF callback.kind \in {"once", "leaves"} THEN Unsubscribe(list, callback.id) ELSE list

\* listeners.forEach over the live array: the indexes 0 .. length-at-start - 1
\* are visited in order, an index past the end of the array is skipped.
RECURSIVE ForEach(_, _, _, _)
ForEach(list, k, len, out) ==
    IF k > len
    THEN [list |-> list, delivered |-> out]
    ELSE IF k > Len(list)
    THEN ForEach(list, k + 1, len, out)
    ELSE ForEach(Invoke(list, list[k]), k + 1, len, Append(out, list[k].id))

Emit(L, eventName) ==
    IF eventName \notin DOMAIN L
    THEN [listeners |-> L, delivered |-> <<>>, ret |-> FALSE]
    ELSE LET run == ForEach(L[eventName], 1, Len(L[eventName]), <<>>)
         IN  [listeners |-> SetListeners(L, eventName, run.list),
              delivered |-> run.delivered,
              ret |-> Len(run.list) > 0]

ClearEvent(L, eventName) ==
    IF eventName \notin DOMAIN L
    THEN [listeners |-> L, ret |-> FALSE]
    ELSE [listeners |-> SetListeners(L, eventName, <<>>),
          ret |-> Len(L[eventName]) > 0]

(***************************************************************************)
(* SpecEmitter: callbacks are subscribed, removed and called.               *)
(***************************************************************************)
\* An emitter nobody has subscribed to, beside an empty ledger.
InitBus ==
    /\ materials = [m \in Materials |-> 0]
    /\ items = [i \in StockIds |-> 0]
    /\ tools = <<>>
    /\ money = 0
    /\ InitRest

DoOn ==
    \E eventName \in EventNames, kind \in OnKinds :
        /\ handlersMade < MaxHandlers
        /\ listeners' = On(listeners, eventName,
                           [id |-> handlersMade + 1, kind |-> kind])
        /\ handlersMade' = handlersMade + 1
        /\ lastOp' = Op("on", eventName, handlersMade + 1, TRUE)
        /\ UNCHANGED <<delivered, shopVars>>

DoOnce ==
    \E eventName \in EventNames :
        /\ handlersMade < MaxHandlers
        /\ listeners' = On(listeners, eventName,
                           [id |-> handlersMade + 1, kind |-> "once"])
        /\ handlersMade' = handlersMade + 1
        /\ lastOp' = Op("once", eventName, handlersMade + 1, TRUE)
        /\ UNCHANGED <<delivered, shopVars>>

DoOff ==
    \E eventName \in EventNames, id \in 1..MaxHandlers :
        LET r == Off(listeners, eventName, id)
        IN  /\ listeners' = r.listeners
            /\ lastOp' = Op("off", eventName, id, r.ret)
            /\ UNCHANGED <<handlersMade, delivered, shopVars>>

DoEmit ==
    \E eventName \in EventNames :
        LET r == Emit(listeners, eventName)
        IN  /\ listeners' = r.listeners
            /\ delivered' = r.delivered
            /\ lastOp' = Op("emit", eventName, 0, r.ret)
            /\ UNCHANGED <<handlersMade, shopVars>>

DoClearEvent ==
    \E eventName \in EventNames :
        LET r == ClearEvent(listeners, eventName)
        IN  /\ listeners' = r.listeners
            /\ lastOp' = Op("clearEvent", eventName, 0, r.ret)
            /\ UNCHANGED <<handlersMade, delivered, shopVars>>

NextEmitter ==
    \/ DoOn
    \/ DoOnce
    \/ DoOff
    \/ DoEmit
    \/ DoClearEvent

SpecEmitter == InitBus /\ [][NextEmitter]_vars

Ids(list) == [i \in 1..Len(list) |-> list[i].id]

\* C14: emit calls, in the order of registration and before it returns, every
\* callback that is subscribed to the name when emit is called, also when an
\* earlier callback throws or unsubscribes itself during the delivery.
C14_EmitReachesAll ==
    [][ lastOp'.op = "emit"
        => delivered' = Ids(ListenersOf(listeners, lastOp'.arg)) ]_vars

\* What startCrafting debited of one material for a job: the recipe's amount
\* times the requested quantity (job.quantity is batchSize times that).
DebitedAtStart(job, name) ==
    RequiredAmount(ItemsData[job.itemId], name)
        * (job.quantity \div BatchSize(ItemsData[job.itemId]))

\* C15: cancelQueuedCraft(index) on a valid index gives back to the ledger
\* exactly what the queued job's startCrafting debited, whatever the requested
\* quantity, wears no tool and leaves the current job and the other queued
\* jobs as they are.
C15_QueuedRefundIsFull ==
    [][ (lastOp'.op = "cancelQueuedCraft" /\ lastOp'.ret)
        => /\ \A name \in Materials :
                 materials'[name] = materials[name]
                     + DebitedAtStart(craftingQueue[lastOp'.n + 1], name)
           /\ tools' = tools
           /\ currentCraft' = currentCraft
           /\ craftingQueue' = Splice(craftingQueue, lastOp'.n + 1) ]_vars

(***************************************************************************)
(* SpecCancel: the crafting operations in a shop that can afford a job of   *)
(* two chisels.                                                             *)
(***************************************************************************)
InitCancel ==
    /\ materials = [m \in Materials |->
                      CASE m = "iron" -> 20 [] m = "wood" -> 10 [] OTHER -> 0]
    /\ items = [i \in StockIds |-> 0]
    /\ tools = [t \in {"hammer", "anvil", "tongs", "file"} |->
                  CASE t = "hammer" -> [uses |-> 3, maxUses |-> 30]
                    [] t = "anvil"  -> [uses |-> 1, maxUses |-> 50]
                    [] t = "tongs"  -> [uses |-> 4, maxUses |-> 40]
                    [] t = "file"   -> [uses |-> 3, maxUses |-> 35]]
    /\ money = 0
    /\ level = 48
    /\ hasWarnedAboutLowCoal = FALSE
    /\ currentCraft = NoJob
    /\ craftingQueue = <<>>
    /\ speedMultiplier = 10
    /\ jobsStarted = 0
    /\ activeContracts = <<>>
    /\ specialContracts = <<>>
    /\ contractTimer = 0
    /\ contractsMade = 0
    /\ InitCatalog
    /\ InitWorkforce
    /\ InitEmitter
    /\ InitStore
    /\ InitEvents
    /\ InitClock
    /\ now = 0
    /\ lowsSinceRefill = 0
    /\ craftTicks = 0
    /\ craftSteady = FALSE
    /\ events = <<>>
    /\ lastOp = NoOp

SpecCancel == InitCancel /\ [][NextCraft]_vars

\* (quantity debited at start) x (1 - progress / duration), truncated to a
\* whole unit; materials are in tenths of a unit.
ProportionalRefund(job, name) ==
    10 * ((DebitedAtStart(job, name) * (job.craftingTime - job.progress))
              \div (10 * job.craftingTime))

\* C16: cancelCurrentCraft refunds materials only when less than half of the
\* job is done; each material then gets back the quantity debited for it at
\* start times (1 - progress/duration), truncated to an integer; afterwards
\* the head of the queue, if any, is the current job.
C16_CancelRefund ==
    [][ (lastOp'.op = "cancelCurrentCraft" /\ lastOp'.ret)
        => /\ \A name \in Materials :
                 materials'[name] = materials[name]
                     + (IF 2 * currentCraft.progress < currentCraft.craftingTime
                        THEN ProportionalRefund(currentCraft, name)
                        ELSE 0)
           /\ currentCraft' = (IF craftingQueue # <<>> THEN Head(craftingQueue) ELSE NoJob)
           /\ craftingQueue' = (IF craftingQueue # <<>> THEN Tail(craftingQueue) ELSE <<>>) ]_vars

(***************************************************************************)
(* SpecProbe: canCraft is asked between starts and updates.                 *)
(***************************************************************************)
DoCanCraft ==
    \E itemId \in CraftInputs :
        Commit(Return(St, TRUE), Op("canCraft", itemId, 0, CanCraft(St, itemId)))

NextProbe ==
    \/ DoStartCrafting
    \/ DoCraftUpdate
    \/ DoCanCraft

SpecProbe == InitCraft /\ [][NextProbe]_vars

\* The check a canCraft reason names.
C17_CheckOfReason(reason) ==
    CASE reason = "Unknown item"           -> "item"
      [] reason = "Blueprint not unlocked" -> "blueprint"
      [] reason = "Missing tools"          -> "tools"
      [] reason = "Not enough materials"   -> "materials"
      [] reason = "Not enough coal"        -> "fuel"
      [] OTHER                             -> "none"

\* The check a startCrafting notification names.
C17_CheckOfRefusal(message) ==
    CASE message = "Unknown item"                       -> "item"
      [] message = "You haven't unlocked the blueprint" -> "blueprint"
      [] message = "Missing tools"                      -> "tools"
      [] message = "Not enough materials"               -> "materials"
      [] message = "Not enough coal in the forge"       -> "fuel"
      [] OTHER                                          -> "none"

\* The first check that fails for an item in the current state, in the order
\* unknown item, locked blueprint, missing tools, materials, fuel.
C17_FirstFailing(itemId) ==
    IF itemId \notin ItemIds THEN "item"
    ELSE IF ~itemUnlocked[itemId] THEN "blueprint"
    ELSE IF GetMissingTools(St, ItemsData[itemId]) # <<>> THEN "tools"
    ELSE IF ~HasMaterials(St, ItemsData[itemId].requiredMaterials) THEN "materials"
    ELSE IF ~HasEnoughCoal(St) THEN "fuel"
    ELSE "none"

\* C17: canCraft(itemId) changes no state; its canCraft is true exactly when
\* startCrafting(itemId, 1) called in the same state returns true; when both
\* fail, they fail on the same first check, in the order unknown item, locked
\* blueprint, missing tools, materials, fuel.
C17_CanCraftMirrorsStart ==
    [][ lastOp'.op = "canCraft"
        => /\ UNCHANGED <<materials, items, tools, money, level,
                          hasWarnedAboutLowCoal, currentCraft, craftingQueue,
                          speedMultiplier, itemUnlocked>>
           /\ lastOp'.ret.canCraft = StartCrafting(St, lastOp'.arg, 1).ret
           /\ C17_CheckOfReason(lastOp'.ret.reason)
                  = C17_CheckOfRefusal(StartRefusal(St, lastOp'.arg))
           /\ C17_CheckOfReason(lastOp'.ret.reason) = C17_FirstFailing(lastOp'.arg) ]_vars

\* canCraft named the missing tools of an item whose materials were short as
\* well, and startCrafting refuses it.
C17_Witness ==
    /\ lastOp.op = "canCraft"
    /\ lastOp.ret.reason = "Missing tools"
    /\ ~HasMaterials(St, ItemsData[lastOp.arg].requiredMaterials)
    /\ ~StartCrafting(St, lastOp.arg, 1).ret

(***************************************************************************)
(* ContractSystem.fulfillContract                                           *)
(***************************************************************************)
\* Mutant: the fulfilled contract stays on its list.
FulfillContractKeepsIt(S, contractId) ==
    LET contractIndex == FindIndex(S.active, contractId)
        specialIndex == FindIndex(S.special, contractId)
    IN  IF contractIndex = 0 /\ specialIndex = 0
        THEN Return(Publish(S, "notification:error", "Contract not found."), FALSE)
        ELSE LET contract == IF contractIndex # 0 THEN S.active[contractIndex]
                             ELSE S.special[specialIndex]
             IN  IF ~HasItems(S, contract.item, contract.quantity)
                 THEN Return(Publish(S, "notification:error", "Not enough items"), FALSE)
                 ELSE LET S1 == RemoveItem(S, contract.item, contract.quantity)
                      IN  IF ~S1.ret
                          THEN Return(Publish(S1, "notification:error",
                                              "Failed to remove items"), FALSE)
                          ELSE Return(Publish(Publish(AddMoney(S1, contract.payout),
                                                      "contract:completed",
                                                      ToString(contractId)),
                                              "notification:success", ""), TRUE)

FulfillContract(S, contractId) ==
    LET contractIndex == FindIndex(S.active, contractId)
        specialIndex == FindIndex(S.special, contractId)
    IN  IF contractIndex = 0 /\ specialIndex = 0
        THEN Return(Publish(S, "notification:error", "Contract not found."), FALSE)
        ELSE LET isSpecial == contractIndex = 0
                 contract == IF contractIndex # 0 THEN S.active[contractIndex]
                             ELSE S.special[specialIndex]
             IN  IF ~HasItems(S, contract.item, contract.quantity)
                 THEN Return(Publish(S, "notification:error", "Not enough items"), FALSE)
                 ELSE LET S1 == RemoveItem(S, contract.item, contract.quantity)
                          S2 == IF isSpecial
                                THEN [S1 EXCEPT !.special = Splice(@, specialIndex)]
                                ELSE [S1 EXCEPT !.active = Splice(@, contractIndex)]
                      IN  IF ~S1.ret
                          THEN Return(Publish(S1, "notification:error",
                                              "Failed to remove items"), FALSE)
                          ELSE Return(Publish(Publish(AddMoney(S2, contract.payout),
                                                      "contract:completed",
                                                      ToString(contractId)),
                                              "notification:success", ""), TRUE)

(***************************************************************************)
(* SpecBoard: contracts are generated, added, rejected and fulfilled from a *)
(* stock of nails and bullets.                                              *)
(***************************************************************************)
InitBoard ==
    /\ materials = [m \in Materials |-> 0]
    /\ items = [i \in StockIds |->
                  CASE i = "nail" -> 140 [] i = "bullets" -> 2 [] OTHER -> 0]
    /\ tools = <<>>
    /\ money = 0
    /\ level = 200
    /\ hasWarnedAboutLowCoal = FALSE
    /\ currentCraft = NoJob
    /\ craftingQueue = <<>>
    /\ speedMultiplier = 10
    /\ jobsStarted = 0
    /\ activeContracts \in
         { << Contract(1, "nail", 40, 5, 110), Contract(2, "nail", 100, 8, 120) >>,
           << Contract(1, "nail", 40, 5, 110), Contract(2, "nail", 100, 8, 120),
              Contract(4, "nail", 40, 6, 110) >> }
    /\ specialContracts = << Contract(3, "bullets", 2, 2, 150) >>
    /\ contractTimer = ContractInterval - 2
    /\ contractsMade = 4
    /\ InitCatalog
    /\ InitWorkforce
    /\ InitEmitter
    /\ InitStore
    /\ InitEvents
    /\ InitClock
    /\ now = 0
    /\ lowsSinceRefill = 0
    /\ craftTicks = 0
    /\ craftSteady = FALSE
    /\ events = <<>>
    /\ lastOp = NoOp

DoFulfillContract ==
    \E contractId \in 1..MaxContractIds :
        Commit(FulfillContract(St, contractId),
               Op("fulfillContract", "", contractId, FulfillContract(St, contractId).ret))

NextBoard ==
    \/ DoContractsUpdate
    \/ DoRejectContract
    \/ DoAddSpecialContract
    \/ DoFulfillContract

SpecBoard == InitBoard /\ [][NextBoard]_vars

\* The contract an id names: the standard one if there is one, else the
\* special one.
C19_Found(contractId) ==
    IF FindIndex(activeContracts, contractId) # 0
    THEN activeContracts[FindIndex(activeContracts, contractId)]
    ELSE specialContracts[FindIndex(specialContracts, contractId)]

C19_Known(contractId) ==
    FindIndex(activeContracts, contractId) # 0 \/ FindIndex(specialContracts, contractId) # 0

\* C19: fulfillContract(id) succeeds only when the ledger holds at least the
\* contract's quantity of its item; a success debits exactly that quantity,
\* credits exactly the contract's payout, which is base price x quantity x
\* payout multiplier, and takes the contract off its list; a failure (unknown
\* id or too little stock) leaves the item stock, the money and both lists
\* unchanged.
C19_FulfilSettles ==
    [][ lastOp'.op = "fulfillContract"
        => IF lastOp'.ret
           THEN LET contract == C19_Found(lastOp'.n)
                IN  /\ C19_Known(lastOp'.n)
                    /\ items[contract.item] >= contract.quantity
                    /\ items' = [items EXCEPT ![contract.item] = @ - contract.quantity]
                    /\ money' = money + contract.payout
                    /\ contract.payout =
                           (ItemsData[contract.item].basePrice * contract.quantity
                                * contract.payoutMultiplier) \div 100
                    /\ Len(activeContracts') + Len(specialContracts')
                           = Len(activeContracts) + Len(specialContracts) - 1
                    /\ ~\E i \in 1..Len(activeContracts') :
                           activeContracts'[i].id = lastOp'.n
                    /\ ~\E i \in 1..Len(specialContracts') :
                           specialContracts'[i].id = lastOp'.n
           ELSE /\ ~C19_Known(lastOp'.n)
                     \/ items[C19_Found(lastOp'.n).item] < C19_Found(lastOp'.n).quantity
                /\ UNCHANGED <<items, money, activeContracts, specialContracts>> ]_vars

\* A standard contract for 40 nails and the special contract for 2 bullets
\* have been fulfilled and paid: 11.00 and 1.50.
C19_Witness ==
    /\ lastOp.op = "fulfillContract"
    /\ lastOp.ret
    /\ lastOp.n = 3
    /\ items["bullets"] = 0
    /\ items["nail"] = 100
    /\ money = 1250
    /\ specialContracts = <<>>

\* C20: the number of active standard contracts never exceeds the cap of 3 in
\* a state reached through update, fulfillContract and rejectContract, whereas
\* addSpecialContract takes a contract for a known item however many standard
\* or special contracts there are.
C20_CapOnStandardOnly ==
    /\ [](Len(activeContracts) <= MaxContracts)
    /\ [][ (lastOp'.op = "addSpecialContract" /\ lastOp'.arg \in ItemIds)
           => /\ Len(specialContracts') = Len(specialContracts) + 1
              /\ specialContracts'[Len(specialContracts')].item = lastOp'.arg
              /\ SubSeq(specialContracts', 1, Len(specialContracts)) = specialContracts
              /\ activeContracts' = activeContracts ]_vars

\* With three standard contracts on the board an update at the interval made
\* no fourth one, and a special contract was added to the one already there.
C20_Witness ==
    /\ lastOp.op = "addSpecialContract"
    /\ lastOp.arg = "bullets"
    /\ Len(activeContracts) = MaxContracts
    /\ Len(specialContracts) = 2
    /\ contractTimer = 0
    /\ contractsMade = 5

(***************************************************************************)
(* StorefrontSystem (src/systems/StorefrontSystem.js).  A listing is        *)
(* [quantity, price, lastSold].  The price modifiers stay at their          *)
(* constructor values (global 1.0, none by category or item).  Demand       *)
(* multipliers are in hundredths.  The timestamps the storefront keeps are  *)
(* values as JavaScript holds them: a Date, the text JSON makes of a Date,  *)
(* or null.                                                                *)
(***************************************************************************)
DateObject(t) == [type |-> "object", t |-> t, text |-> <<>>]

DateText(t) == [type |-> "string", t |-> 0, text |-> DateToJSON(t)]

NullDate == [type |-> "null", t |-> 0, text |-> <<>>]

\* v > new Date() and v <= new Date(): a Date compares by its instant; an ISO
\* text compared with a Date converts to NaN, and every comparison with NaN is
\* false.
After(v, instant) == v.type = "object" /\ v.t > instant

NotAfter(v, instant) == v.type = "object" /\ v.t <= instant

Listed(S, itemId) == itemId \in DOMAIN S.store

\* this.storefrontItems[itemId] = listing
PutListing(S, itemId, listing) ==
    [S EXCEPT !.store = [i \in DOMAIN S.store \cup {itemId} |->
                           IF i = itemId THEN listing ELSE S.store[i]]]

\* delete this.storefrontItems[itemId]
DeleteListing(S, itemId) ==
    [S EXCEPT !.store = [i \in DOMAIN S.store \ {itemId} |-> S.store[i]]]

\* if (this.storefrontItems[itemId].quantity === 0) delete ...
CleanUpIfZero(S, itemId) ==
    IF S.store[itemId].quantity = 0 THEN DeleteListing(S, itemId) ELSE S

GetItemBasePrice(itemId) ==
    IF itemId \in ItemIds THEN ItemsData[itemId].basePrice ELSE 0

GetItemPrice(S, itemId) ==
    IF Listed(S, itemId) /\ S.store[itemId].price # 0
    THEN S.store[itemId].price
    ELSE GetItemBasePrice(itemId)

\* Mutant: the listing is made before the ledger is asked for the items.
AddItemToStorefrontUnpaid(S, itemId, quantity) ==
    LET S0 == IF ~Listed(S, itemId)
              THEN PutListing(S, itemId, [quantity |-> 0,
                                          price |-> GetItemBasePrice(itemId),
                                          lastSold |-> NullDate])
              ELSE S
        S1 == [S0 EXCEPT !.store[itemId].quantity = @ + quantity]
        S2 == RemoveItem(S1, itemId, quantity)
    IN  Return(Publish(Publish(S2, "storefront:updated", ""),
                       "notification:info", ""), TRUE)

AddItemToStorefront(S, itemId, quantity) ==
    LET S1 == RemoveItem(S, itemId, quantity)
    IN  IF ~S1.ret
        THEN Return(Publish(S1, "notification:error", "Not enough in inventory"), FALSE)
        ELSE LET S2 == IF ~Listed(S1, itemId)
                       THEN PutListing(S1, itemId, [quantity |-> 0,
                                                    price |-> GetItemBasePrice(itemId),
                                                    lastSold |-> NullDate])
                       ELSE S1
                 S3 == [S2 EXCEPT !.store[itemId].quantity = @ + quantity]
             IN  Return(Publish(Publish(S3, "storefront:updated", ""),
                                "notification:info", ""), TRUE)

RemoveItemFromStorefront(S, itemId, quantity) ==
    IF ~Listed(S, itemId) \/ S.store[itemId].quantity < quantity
    THEN Return(Publish(S, "notification:error", "Not enough in storefront"), FALSE)
    ELSE LET S1 == [S EXCEPT !.store[itemId].quantity = @ - quantity]
             S2 == AddItem(S1, itemId, quantity)
             S3 == CleanUpIfZero(S2, itemId)
         IN  Return(Publish(Publish(S3, "storefront:updated", ""),
                            "notification:info", ""), TRUE)

\* The sale itself, as sellItem and handleCustomerVisit both do it.
Sale(S, itemId, quantity) ==
    LET price == GetItemPrice(S, itemId) * quantity
        S1 == [S EXCEPT !.store[itemId].quantity = @ - quantity,
                        !.store[itemId].lastSold = DateObject(S.now)]
        S2 == CleanUpIfZero(S1, itemId)
        S3 == AddMoney(S2, price)
    IN  Publish(Publish(Publish(S3, "storefront:updated", ""),
                        "item:sold", itemId),
                "notification:success", "")

SellItem(S, itemId, quantity) ==
    IF ~Listed(S, itemId) \/ S.store[itemId].quantity < quantity
    THEN Return(Publish(S, "notification:error", "Not enough in storefront"), FALSE)
    ELSE Return(Sale(S, itemId, quantity), TRUE)

SetDemandMultiplier(S, itemId, multiplier, expiryTime) ==
    Publish([S EXCEPT !.demand = [i \in DOMAIN S.demand \cup {itemId} |->
                                    IF i = itemId
                                    THEN [multiplier |-> multiplier,
                                          expiryTime |-> DateObject(expiryTime)]
                                    ELSE S.demand[i]]],
            "notification:info", "Demand has changed")

\* demandMultipliers[itemId] && demandMultipliers[itemId].expiryTime > new Date()
GetDemandMultiplier(S, itemId) ==
    IF itemId \in DOMAIN S.demand /\ After(S.demand[itemId].expiryTime, S.now)
    THEN S.demand[itemId].multiplier
    ELSE 100

\* One notification for each multiplier the sweep deletes.
RECURSIVE NotifyDemandOver(_, _)
NotifyDemandOver(S, n) ==
    IF n = 0 THEN S
    ELSE NotifyDemandOver(Publish(S, "notification:info", "Demand has returned to normal"),
                          n - 1)

UpdateDemandMultipliers(S) ==
    LET over == {i \in DOMAIN S.demand : NotAfter(S.demand[i].expiryTime, S.now)}
    IN  NotifyDemandOver([S EXCEPT !.demand = [i \in DOMAIN S.demand \ over |-> S.demand[i]]],
                         Cardinality(over))

\* The largest value of Math.floor(Math.random() * 3 * demandMultiplier) + 1.
MaxWanted(demandMultiplier) ==
    IF demandMultiplier = 0 THEN 1 ELSE (3 * demandMultiplier + 99) \div 100

\* The items getWeightedRandomItem can return: an available item of positive
\* weight, or any available item when all weights are 0.
CustomerChoices(S) ==
    LET availableItems == {i \in DOMAIN S.store : S.store[i].quantity > 0}
    IN  IF \A i \in availableItems : GetDemandMultiplier(S, i) = 0
        THEN availableItems
        ELSE {i \in availableItems : GetDemandMultiplier(S, i) > 0}

\* Mutant: the customer takes what it wants, whatever the listing holds.
HandleCustomerVisitGreedy(S, visit) ==
    IF visit.itemId \notin CustomerChoices(S)
    THEN S
    ELSE IF ~visit.buys \/ GetDemandMultiplier(S, visit.itemId) = 0
    THEN S
    ELSE Sale(S, visit.itemId,
              Min(visit.wanted, MaxWanted(GetDemandMultiplier(S, visit.itemId))))

\* visit: [comes, itemId, buys, wanted], the outcomes of the random draws.
HandleCustomerVisit(S, visit) ==
    IF visit.itemId \notin CustomerChoices(S)
    THEN S
    ELSE IF ~visit.buys \/ GetDemandMultiplier(S, visit.itemId) = 0
    THEN S
    ELSE Sale(S, visit.itemId,
              Min(S.store[visit.itemId].quantity,
                  Min(visit.wanted, MaxWanted(GetDemandMultiplier(S, visit.itemId)))))

CheckForCustomers(S, visit) ==
    IF DOMAIN S.store = {} THEN S
    ELSE IF visit.comes THEN HandleCustomerVisit(S, visit)
    ELSE S

CustomerCheckInterval == 30

StoreUpdate(S, visit) ==
    LET S1 == UpdateDemandMultipliers([S EXCEPT !.custTimer = @ + 1])
    IN  IF S1.custTimer >= CustomerCheckInterval
        THEN CheckForCustomers([S1 EXCEPT !.custTimer = 0], visit)
        ELSE S1

(***************************************************************************)
(* SpecStore: items go to the storefront, come back and are sold.           *)
(***************************************************************************)
StoreInputs == {"nail", "bullets", "horseshoe"}

StoreQuantities == {1, 2}

\* The outcomes of the random draws of checkForCustomers and
\* handleCustomerVisit.
Visits ==
    {[comes |-> FALSE, itemId |-> "nail", buys |-> FALSE, wanted |-> 1]}
    \cup {[comes |-> TRUE, itemId |-> i, buys |-> b, wanted |-> w] :
              i \in StoreInputs, b \in BOOLEAN, w \in {1, 3}}

\* A shop in the middle of a game: some stock, nothing listed yet, the customer
\* timer two updates before the check.
InitShopfront ==
    /\ materials = [m \in Materials |-> 0]
    /\ items = [i \in StockIds |->
                  CASE i = "nail" -> 3 [] i = "horseshoe" -> 2
                    [] i = "bullets" -> 1 [] OTHER -> 0]
    /\ tools = <<>>
    /\ money = 0
    /\ level = 200
    /\ hasWarnedAboutLowCoal = FALSE
    /\ currentCraft = NoJob
    /\ craftingQueue = <<>>
    /\ speedMultiplier = 10
    /\ jobsStarted = 0
    /\ activeContracts = <<>>
    /\ specialContracts = <<>>
    /\ contractTimer = 0
    /\ contractsMade = 0
    /\ InitCatalog
    /\ InitWorkforce
    /\ InitEmitter
    /\ storefrontItems = <<>>
    /\ demandMultipliers = <<>>
    /\ customerTimer = CustomerCheckInterval - 2
    /\ InitEvents
    /\ InitClock
    /\ now = 0
    /\ lowsSinceRefill = 0
    /\ craftTicks = 0
    /\ craftSteady = FALSE
    /\ events = <<>>
    /\ lastOp = NoOp

DoAddItemToStorefront ==
    \E itemId \in StoreInputs, quantity \in StoreQuantities :
        Commit(AddItemToStorefront(St, itemId, quantity),
               Op("addItemToStorefront", itemId, quantity,
                  AddItemToStorefront(St, itemId, quantity).ret))

DoRemoveItemFromStorefront ==
    \E itemId \in StoreInputs, quantity \in StoreQuantities :
        Commit(RemoveItemFromStorefront(St, itemId, quantity),
               Op("removeItemFromStorefront", itemId, quantity,
                  RemoveItemFromStorefront(St, itemId, quantity).ret))

DoSellItem ==
    \E itemId \in StoreInputs, quantity \in StoreQuantities :
        Commit(SellItem(St, itemId, quantity),
               Op("sellItem", itemId, quantity, SellItem(St, itemId, quantity).ret))

DoStoreUpdate ==
    \E visit \in Visits :
        /\ customerTimer < MaxTimer \/ customerTimer >= CustomerCheckInterval - MaxTimer
        /\ Commit(StoreUpdate(St, visit), Op("storefront.update", "", 0, TRUE))

NextStore ==
    \/ DoAddItemToStorefront
    \/ DoRemoveItemFromStorefront
    \/ DoSellItem
    \/ DoStoreUpdate

SpecStore == InitShopfront /\ [][NextStore]_vars

\* The quantity of an item on the storefront, 0 when it is not listed.
C21_ListedNow(itemId) ==
    IF itemId \in DOMAIN storefrontItems THEN storefrontItems[itemId].quantity ELSE 0

C21_ListedNext(itemId) ==
    IF itemId \in DOMAIN storefrontItems' THEN storefrontItems'[itemId].quantity ELSE 0

\* C21: addItemToStorefront and removeItemFromStorefront keep, for every item,
\* the sum of the ledger's stock and the listed quantity; when the source (the
\* ledger for add, the listing for remove) holds less than the quantity asked
\* for, the call returns false and neither the ledger nor the listing changes;
\* no listing of quantity 0 is left by a removal or a sale.
C21_StockIsConserved ==
    [][ /\ lastOp'.op \in {"addItemToStorefront", "removeItemFromStorefront"}
           => /\ \A i \in StockIds :
                    items'[i] + C21_ListedNext(i) = items[i] + C21_ListedNow(i)
              /\ lastOp'.ret
                    = (IF lastOp'.op = "addItemToStorefront"
                       THEN items[lastOp'.arg] >= lastOp'.n
                       ELSE C21_ListedNow(lastOp'.arg) >= lastOp'.n)
              /\ ~lastOp'.ret => UNCHANGED <<items, storefrontItems>>
              /\ lastOp'.ret =>
                    IF lastOp'.op = "addItemToStorefront"
                    THEN C21_ListedNext(lastOp'.arg) = C21_ListedNow(lastOp'.arg) + lastOp'.n
                    ELSE items'[lastOp'.arg] = items[lastOp'.arg] + lastOp'.n
        /\ lastOp'.op \in {"removeItemFromStorefront", "sellItem", "storefront.update"}
           => \A i \in DOMAIN storefrontItems' : storefrontItems'[i].quantity > 0 ]_vars

\* The two nails that were listed have been taken back: the ledger holds three
\* again and the listing is gone.
C21_Witness ==
    /\ lastOp.op = "removeItemFromStorefront"
    /\ lastOp.ret
    /\ lastOp.arg = "nail"
    /\ lastOp.n = 2
    /\ items["nail"] = 3
    /\ "nail" \notin DOMAIN storefrontItems

(***************************************************************************)
(* WorkerSystem: tasks, fatigue and rest.  A worker is found by its place   *)
(* in the roster (its id); the status text is not modelled.                 *)
(***************************************************************************)
HasWorker(S, workerId) == workerId \in 1..Len(S.workers)

MaxFatigueOf(worker) == WorkerTypes[worker.type].maxFatigue

SetWorkerResting(S, workerId, resting) ==
    IF ~HasWorker(S, workerId)
    THEN Return(S, FALSE)
    ELSE LET S1 == [S EXCEPT !.workers[workerId].resting = resting,
                             !.workers[workerId].currentTask =
                                 IF resting THEN NoTask ELSE @]
         IN  Return(Publish(S1, IF resting THEN "worker:resting" ELSE "worker:working",
                            ToString(workerId)), TRUE)

IncreaseFatigue(S, workerId) ==
    LET worker == S.workers[workerId]
        fatigueIncrease ==
            CASE worker.currentTask.type = "crafting" ->
                     (20 * WorkerTypes[worker.type].fatigueRate) \div 100
              [] worker.currentTask.type = "coal" -> 5
              [] OTHER -> 10
        fatigue == Min(worker.fatigue + fatigueIncrease, MaxFatigueOf(worker))
        S1 == [S EXCEPT !.workers[workerId].fatigue = fatigue]
    IN  IF 10 * fatigue >= 8 * MaxFatigueOf(worker) /\ ~worker.highFatigueWarning
        THEN Publish([S1 EXCEPT !.workers[workerId].highFatigueWarning = TRUE],
                     "notification:warning", "is getting very tired")
        ELSE S1

RecoverFatigue(S, workerId) ==
    LET worker == S.workers[workerId]
        recoveryRate == (20 * WorkerTypes[worker.type].recoveryRate) \div 100
        fatigue == IF worker.fatigue - recoveryRate < 0 THEN 0
                   ELSE worker.fatigue - recoveryRate
        S1 == [S EXCEPT !.workers[workerId].fatigue = fatigue,
                        !.workers[workerId].highFatigueWarning =
                            IF 2 * fatigue < MaxFatigueOf(worker) THEN FALSE ELSE @]
        S2 == IF fatigue = 0 /\ worker.wasResting
              THEN Publish([S1 EXCEPT !.workers[workerId].wasResting = FALSE],
                           "notification:info", "is fully rested")
              ELSE S1
    IN  IF fatigue > 0 THEN [S2 EXCEPT !.workers[workerId].wasResting = TRUE] ELSE S2

\* 'crafting:start' is heard by CraftingSystem, which calls startCrafting; the
\* speed multiplier is set and set back around it.
HandleCraftingTask(S, workerId) ==
    LET task == S.workers[workerId].currentTask
        originalSpeedMultiplier == S.speed
    IN  IF S.cur = NoJob /\ Len(S.queue) = 0
        THEN IF CanCraft(S, task.itemId).canCraft
             THEN SetSpeedMultiplier(
                      StartCrafting(
                          SetSpeedMultiplier(
                              S, WorkerTypes[S.workers[workerId].type].speedMultiplier),
                          task.itemId, 1),
                      originalSpeedMultiplier)
             ELSE [Publish(S, "notification:warning", CanCraft(S, task.itemId).reason)
                      EXCEPT !.workers[workerId].currentTask = NoTask]
        ELSE S

\* 'worker:refill-coal' is heard by CoalSystem, which calls refill.
HandleCoalTask(S, workerId) ==
    IF S.level <= 40
    THEN LET S1 == Refill(Publish(S, "worker:refill-coal", ""))
         IN  IF S1.ret THEN Publish(S1, "notification:info", "has refilled the forge")
             ELSE S1
    ELSE S

\* Mutant: a worker at its maximum goes on working.
UpdateWorkerTireless(S, workerId) ==
    LET worker == S.workers[workerId]
    IN  IF worker.resting
        THEN RecoverFatigue(S, workerId)
        ELSE IF worker.currentTask = NoTask
        THEN S
        ELSE IncreaseFatigue(
                 CASE worker.currentTask.type = "crafting" -> HandleCraftingTask(S, workerId)
                   [] worker.currentTask.type = "coal" -> HandleCoalTask(S, workerId)
                   [] OTHER -> S,
                 workerId)

UpdateWorker(S, workerId) ==
    LET worker == S.workers[workerId]
    IN  IF worker.resting
        THEN RecoverFatigue(S, workerId)
        ELSE IF worker.fatigue >= MaxFatigueOf(worker)
        THEN Publish(SetWorkerResting(S, workerId, TRUE),
                     "notification:warning", "is too fatigued to work")
        ELSE IF worker.currentTask = NoTask
        THEN S
        ELSE IncreaseFatigue(
                 CASE worker.currentTask.type = "crafting" -> HandleCraftingTask(S, workerId)
                   [] worker.currentTask.type = "coal" -> HandleCoalTask(S, workerId)
                   [] OTHER -> S,
                 workerId)

\* for (const [workerId, worker] of Object.entries(this.workers))
RECURSIVE UpdateWorkersFrom(_, _)
UpdateWorkersFrom(S, workerId) ==
    IF workerId > Len(S.workers)
    THEN S
    ELSE UpdateWorkersFrom(UpdateWorker(S, workerId), workerId + 1)

WorkersUpdate(S) == Return(UpdateHiringDiscounts(UpdateWorkersFrom(S, 1)), TRUE)

AssignTask(S, workerId, task) ==
    IF ~HasWorker(S, workerId)
    THEN Return(Publish(S, "notification:error", "Worker not found."), FALSE)
    ELSE LET worker == S.workers[workerId]
         IN  IF worker.resting
             THEN Return(Publish(S, "notification:error", "is resting"), FALSE)
             ELSE IF worker.fatigue >= MaxFatigueOf(worker)
             THEN Return(Publish(S, "notification:error", "is too fatigued to work"), FALSE)
             ELSE IF task.type = "crafting" /\ task.itemId = ""
             THEN Return(Publish(S, "notification:error", "No item specified"), FALSE)
             ELSE IF task.type \notin {"crafting", "coal"}
             THEN Return(Publish(S, "notification:error", "Unknown task type"), FALSE)
             ELSE Return(Publish(Publish([S EXCEPT !.workers[workerId].currentTask = task],
                                         "worker:task-assigned", ToString(workerId)),
                                 "notification:info", ""), TRUE)

(***************************************************************************)
(* SpecCrew: two hired workers, one close to its maximum fatigue, one       *)
(* rested, are given tasks, sent to rest and updated.                       *)
(***************************************************************************)
FatigueWindow == 24

TaskInputs ==
    { [type |-> "crafting", itemId |-> "nail"],
      [type |-> "coal", itemId |-> ""],
      [type |-> "crafting", itemId |-> ""],
      [type |-> "mining", itemId |-> ""] }

WorkerIdInputs == {1, 2, 3}

InitCrew ==
    /\ materials = [m \in Materials |->
                      CASE m = "iron" -> 2 [] m = "coal" -> 50 [] OTHER -> 0]
    /\ items = [i \in StockIds |-> 0]
    /\ tools = [t \in {"hammer", "anvil", "tongs"} |->
                  CASE t = "hammer" -> [uses |-> 3, maxUses |-> 30]
                    [] t = "anvil"  -> [uses |-> 2, maxUses |-> 50]
                    [] t = "tongs"  -> [uses |-> 4, maxUses |-> 40]]
    /\ money = 0
    /\ level = 44
    /\ hasWarnedAboutLowCoal = FALSE
    /\ currentCraft = NoJob
    /\ craftingQueue = <<>>
    /\ speedMultiplier = 10
    /\ jobsStarted = 0
    /\ activeContracts = <<>>
    /\ specialContracts = <<>>
    /\ contractTimer = 0
    /\ contractsMade = 0
    /\ InitCatalog
    /\ workers = << [ id |-> 1, type |-> "apprentice", fatigue |-> 9976,
                      currentTask |-> NoTask, resting |-> FALSE,
                      highFatigueWarning |-> TRUE, wasResting |-> FALSE ],
                    [ id |-> 2, type |-> "master", fatigue |-> 0,
                      currentTask |-> NoTask, resting |-> FALSE,
                      highFatigueWarning |-> FALSE, wasResting |-> FALSE ] >>
    /\ hiringDiscounts = <<>>
    /\ InitEmitter
    /\ InitStore
    /\ InitEvents
    /\ InitClock
    /\ now = 0
    /\ lowsSinceRefill = 0
    /\ craftTicks = 0
    /\ craftSteady = FALSE
    /\ events = <<>>
    /\ lastOp = NoOp

DoWorkersUpdate ==
    /\ \A i \in 1..Len(workers) :
           \/ workers[i].fatigue <= FatigueWindow
           \/ workers[i].fatigue >= MaxFatigueOf(workers[i]) - FatigueWindow
    /\ Commit(WorkersUpdate(St), Op("workers.update", "", 0, TRUE))

DoAssignTask ==
    \E workerId \in WorkerIdInputs, task \in TaskInputs :
        Commit(AssignTask(St, workerId, task),
               Op("assignTask", task.type, workerId, AssignTask(St, workerId, task).ret))

DoSetWorkerResting ==
    \E workerId \in WorkerIdInputs, resting \in BOOLEAN :
        Commit(SetWorkerResting(St, workerId, resting),
               Op("setWorkerResting", IF resting THEN "rest" ELSE "work", workerId,
                  SetWorkerResting(St, workerId, resting).ret))

NextCrew ==
    \/ DoWorkersUpdate
    \/ DoAssignTask
    \/ DoSetWorkerResting

SpecCrew == InitCrew /\ [][NextCrew]_vars

\* C22: a worker that is not resting and whose fatigue has reached the maximum
\* of its type is resting, with no task, after the next update(); assignTask
\* returns false and leaves the task as it is whenever the worker is resting or
\* at its maximum fatigue.
C22_TiredWorkersRest ==
    [][ /\ lastOp'.op = "workers.update"
           => \A i \in 1..Len(workers) :
                  (~workers[i].resting /\ workers[i].fatigue >= MaxFatigueOf(workers[i]))
                  => /\ workers'[i].resting
                     /\ workers'[i].currentTask = NoTask
        /\ ( /\ lastOp'.op = "assignTask"
              /\ lastOp'.n \in 1..Len(workers)
              /\ \/ workers[lastOp'.n].resting
                 \/ workers[lastOp'.n].fatigue >= MaxFatigueOf(workers[lastOp'.n]) )
           => /\ ~lastOp'.ret
                 /\ workers'[lastOp'.n].currentTask = workers[lastOp'.n].currentTask ]_vars

\* The apprentice worked up to its maximum with a task, the next update has
\* sent it to rest and taken the task away.
C22_Witness ==
    /\ lastOp.op = "workers.update"
    /\ workers[1].resting
    /\ workers[1].fatigue = 10000
    /\ workers[1].currentTask = NoTask
    /\ CountName(events, "worker:resting") = 1

(***************************************************************************)
(* src/data/events.js and EventSystem                                      *)
(***************************************************************************)
\* One effect of a definition; the fields an effect type does not use are empty.
Effect(type, item, multiplier, quantity, durationMinutes) ==
    [ type |-> type, item |-> item, multiplier |-> multiplier,
      quantity |-> quantity, durationMinutes |-> durationMinutes ]

\* The definitions the model keeps, with the numbers of events.js: duration in
\* minutes, multipliers in hundredths.  requires is the blueprint the
\* definition's conditions function asks for ("" for a definition without one);
\* for workerDiscount the field item holds the worker type.
EventDefinitions ==
    [ railroad_expansion |->
          [ duration |-> 20, weight |-> 7, requires |-> "",
            effects |-> << Effect("demandIncrease", "nail", 150, 0, 0),
                           Effect("specialContract", "nail", 140, 120, 15) >> ],
      skilled_apprentice |->
          [ duration |-> 30, weight |-> 6, requires |-> "",
            effects |-> << Effect("workerDiscount", "apprentice", 70, 0, 0) >> ],
      military_contract |->
          [ duration |-> 15, weight |-> 4, requires |-> "rifle",
            effects |-> << Effect("specialContract", "rifle", 200, 10, 25),
                           Effect("specialContract", "bullets", 180, 50, 15) >> ] ]

EventIds == DOMAIN EventDefinitions

\* An id that events.js does not define.
UnknownEvent == "eclipse"

\* The object the EventSystem hands to events.js: a blueprint test that answers
\* yes to every id, and no component at all.
GetGameState(S) ==
    [ isUnlocked |-> [i \in ItemIds \cup {"rifle"} |-> TRUE],
      storefront |-> FALSE, contracts |-> FALSE, workers |-> FALSE ]

\* event.conditions(gameState), for a definition that has one.
Conditions(eventId, gameState) ==
    gameState.isUnlocked[EventDefinitions[eventId].requires]

\* availableEvents of generateRandomEvent.
AvailableEvents(gameState) ==
    { e \in EventIds : EventDefinitions[e].requires = "" \/ Conditions(e, gameState) }

\* The instance built from a definition: the definition's id, the clock now and
\* the clock after the duration.
EventInstance(S, eventId) ==
    [ id |-> eventId, startTime |-> S.now,
      expiryTime |-> S.now + EventDefinitions[eventId].duration ]

IsActive(S, eventId) == \E k \in 1..Len(S.evActive) : S.evActive[k].id = eventId

\* One case of the switch of processEventEffects.
ProcessEffect(S, effect, event, gameState) ==
    CASE effect.type = "demandIncrease" /\ gameState.storefront ->
             SetDemandMultiplier(S, effect.item, effect.multiplier, event.expiryTime)
      [] effect.type = "specialContract" /\ gameState.contracts ->
             AddSpecialContract(S,
                 [ id |-> S.made + 1, item |-> effect.item,
                   quantity |-> effect.quantity,
                   expiryTime |-> S.now + effect.durationMinutes,
                   payoutMultiplier |-> effect.multiplier, payout |-> 0 ])
      [] effect.type = "workerDiscount" /\ gameState.workers ->
             SetHiringDiscount(S, effect.item, effect.multiplier, event.expiryTime)
      [] OTHER -> S

RECURSIVE ProcessEffectsFrom(_, _, _, _, _)
ProcessEffectsFrom(S, effects, k, event, gameState) ==
    IF k > Len(effects)
    THEN S
    ELSE ProcessEffectsFrom(ProcessEffect(S, effects[k], event, gameState),
                            effects, k + 1, event, gameState)

ProcessEventEffects(S, event, gameState) ==
    ProcessEffectsFrom(S, EventDefinitions[event.id].effects, 1, event, gameState)

\* The common tail of the two triggers: push, process the effects, publish.
Activate(S, event, gameState) ==
    Publish(Publish(ProcessEventEffects([S EXCEPT !.evActive = Append(@, event)],
                                        event, gameState),
                    "event:triggered", event.id),
            "notification:event", "")

\* pick is the definition the weighted draw lands on, "" when no definition is
\* available; every available definition has a positive weight.
TriggerRandomEvent(S, pick) ==
    IF pick = ""
    THEN S
    ELSE IF IsActive(S, pick)
    THEN S
    ELSE Activate(S, EventInstance(S, pick), GetGameState(S))

\* Mutant: the forced trigger does not look at the active list.
TriggerSpecificEventAgain(S, eventId) ==
    IF eventId \notin EventIds
    THEN Return(S, FALSE)
    ELSE IF EventDefinitions[eventId].requires # ""
            /\ ~Conditions(eventId, GetGameState(S))
    THEN Return(S, FALSE)
    ELSE Return(Activate(S, EventInstance(S, eventId), GetGameState(S)), TRUE)

TriggerSpecificEvent(S, eventId) ==
    IF eventId \notin EventIds
    THEN Return(S, FALSE)
    ELSE IF IsActive(S, eventId)
    THEN Return(S, FALSE)
    ELSE IF EventDefinitions[eventId].requires # ""
            /\ ~Conditions(eventId, GetGameState(S))
    THEN Return(S, FALSE)
    ELSE Return(Activate(S, EventInstance(S, eventId), GetGameState(S)), TRUE)

\* roll is whether Math.random() * 100 <= chance.
CheckForEvent(S, roll, pick) ==
    IF roll THEN TriggerRandomEvent(S, pick) ELSE S

RECURSIVE NotifyExpiredFrom(_, _, _)
NotifyExpiredFrom(S, evts, k) ==
    IF k > Len(evts)
    THEN S
    ELSE NotifyExpiredFrom(
             IF evts[k].expiryTime <= S.now
             THEN Publish(Publish(S, "event:expired", evts[k].id),
                          "notification:info", "")
             ELSE S,
             evts, k + 1)

CheckExpiredEvents(S) ==
    NotifyExpiredFrom(
        [S EXCEPT !.evActive = SelectSeq(@, LAMBDA e : ~(e.expiryTime <= S.now))],
        S.evActive, 1)

EventCheckInterval == 3600

EventsUpdate(S, roll, pick) ==
    LET ticked == [S EXCEPT !.evTimer = @ + 1]
        checked == IF ticked.evTimer >= EventCheckInterval
                   THEN CheckForEvent([ticked EXCEPT !.evTimer = 0], roll, pick)
                   ELSE ticked
    IN  CheckExpiredEvents(checked)

(***************************************************************************)
(* SpecEvents: the EventSystem under a wall clock, with the forced and the  *)
(* random trigger and the per-tick update.                                 *)
(***************************************************************************)
\* What the weighted draw can land on in the state.
Draws == IF AvailableEvents(GetGameState(St)) = {}
         THEN {""}
         ELSE AvailableEvents(GetGameState(St))

TriggerInputs == EventIds \cup {UnknownEvent}

\* A game under way: the railroad event began eighteen minutes before the
\* model's clock starts and ends two minutes into it; the check timer is two
\* updates before the interval.
InitDirector ==
    /\ materials = [m \in Materials |-> 0]
    /\ items = [i \in StockIds |-> 0]
    /\ tools = <<>>
    /\ money = 0
    /\ level = 200
    /\ hasWarnedAboutLowCoal = FALSE
    /\ currentCraft = NoJob
    /\ craftingQueue = <<>>
    /\ speedMultiplier = 10
    /\ jobsStarted = 0
    /\ activeContracts = <<>>
    /\ specialContracts = <<>>
    /\ contractTimer = 0
    /\ contractsMade = 0
    /\ InitCatalog
    /\ InitWorkforce
    /\ InitEmitter
    /\ InitStore
    /\ activeEvents = << [id |-> "railroad_expansion", startTime |-> -18,
                          expiryTime |-> 2] >>
    /\ eventCheckTimer = EventCheckInterval - 2
    /\ InitClock
    /\ now = 0
    /\ lowsSinceRefill = 0
    /\ craftTicks = 0
    /\ craftSteady = FALSE
    /\ events = <<>>
    /\ lastOp = NoOp

DoTriggerSpecificEvent ==
    \E eventId \in TriggerInputs :
        Commit(TriggerSpecificEvent(St, eventId),
               Op("triggerSpecificEvent", eventId, 0,
                  TriggerSpecificEvent(St, eventId).ret))

DoTriggerRandomEvent ==
    \E pick \in Draws :
        Commit(TriggerRandomEvent(St, pick), Op("triggerRandomEvent", pick, 0, TRUE))

\* The listener of time:hour-changed at nine and at two o'clock.
DoCheckForEvent ==
    \E roll \in BOOLEAN, pick \in Draws :
        Commit(CheckForEvent(St, roll, pick),
               Op("checkForEvent", IF roll THEN pick ELSE "", 0, TRUE))

DoEventsUpdate ==
    \E roll \in BOOLEAN, pick \in Draws :
        /\ \/ eventCheckTimer < MaxTimer
           \/ eventCheckTimer >= EventCheckInterval - MaxTimer
        /\ Commit(EventsUpdate(St, roll, pick),
                  Op("events.update",
                     IF roll /\ eventCheckTimer + 1 >= EventCheckInterval
                     THEN pick ELSE "", 0, TRUE))

NextEvents ==
    \/ DoTriggerSpecificEvent
    \/ DoTriggerRandomEvent
    \/ DoCheckForEvent
    \/ DoEventsUpdate
    \/ DoClockPasses

SpecEvents == InitDirector /\ [][NextEvents]_vars

\* The definition a call set out to trigger, "" for a call that triggers none.
Drawn(op) ==
    IF op.op \in {"triggerSpecificEvent", "triggerRandomEvent", "checkForEvent",
                  "events.update"}
    THEN op.arg ELSE ""

ActiveIds == { activeEvents[k].id : k \in 1..Len(activeEvents) }

\* C23: the active-event list never holds two events of one definition; a random
\* or a forced trigger of a definition that is active at that moment leaves the
\* list, the demand multipliers, the special contracts and the hiring discounts
\* as they were and publishes no event:triggered.
C23_NoActiveEventTwice ==
    /\ [](\A j, k \in 1..Len(activeEvents) :
              activeEvents[j].id = activeEvents[k].id => j = k)
    /\ [][ (Drawn(lastOp') # "" /\ Drawn(lastOp') \in ActiveIds)
           => /\ ActiveIds' \subseteq ActiveIds
              /\ Len(activeEvents') <= Len(activeEvents)
              /\ demandMultipliers' = demandMultipliers
              /\ specialContracts' = specialContracts
              /\ hiringDiscounts' = hiringDiscounts
              /\ CountName(events', "event:triggered") = 0 ]_vars

\* A forced trigger of the railroad event was refused while that event is active.
C23_Witness ==
    /\ lastOp.op = "triggerSpecificEvent"
    /\ lastOp.arg = "railroad_expansion"
    /\ lastOp.ret = FALSE
    /\ "railroad_expansion" \in ActiveIds

\* The definition an event:triggered of the last call names, "" when the call
\* published none.
Triggered(evs) ==
    IF \E k \in 1..Len(evs) : evs[k].name = "event:triggered"
    THEN evs[CHOOSE k \in 1..Len(evs) : evs[k].name = "event:triggered"].arg
    ELSE ""

\* What one effect of a triggered event leaves in its target component.
EffectApplied(effect, expiryTime) ==
    CASE effect.type = "demandIncrease" ->
             /\ effect.item \in DOMAIN demandMultipliers'
             /\ demandMultipliers'[effect.item] =
                    [multiplier |-> effect.multiplier,
                     expiryTime |-> DateObject(expiryTime)]
      [] effect.type = "specialContract" /\ effect.item \in ItemIds ->
             \E k \in 1..Len(specialContracts') :
                 /\ specialContracts'[k].item = effect.item
                 /\ specialContracts'[k].quantity = effect.quantity
                 /\ specialContracts'[k].id > contractsMade
      [] effect.type = "workerDiscount" ->
             /\ effect.item \in DOMAIN hiringDiscounts'
             /\ hiringDiscounts'[effect.item] =
                    [multiplier |-> effect.multiplier, expiryTime |-> expiryTime]
      [] OTHER -> TRUE

\* C24: when an event is triggered, every effect of its definition is applied to
\* its target: a demandIncrease is the item's demand multiplier until the
\* event's expiry, a specialContract is a new special contract of the board, a
\* workerDiscount is a hiring discount of the worker type.
C24_EffectsReachTargets ==
    [][ Triggered(events') # ""
        => \A k \in 1..Len(EventDefinitions[Triggered(events')].effects) :
               EffectApplied(EventDefinitions[Triggered(events')].effects[k],
                             now + EventDefinitions[Triggered(events')].duration) ]_vars

\* C25: a definition that carries a conditions function is triggered, by the
\* draw or by a forced trigger, only while the blueprint it asks for is
\* unlocked.
C25_ConditionsRespected ==
    [][ (Triggered(events') # "" /\ EventDefinitions[Triggered(events')].requires # "")
        => EventDefinitions[Triggered(events')].requires \in unlockedBlueprints ]_vars

(***************************************************************************)
(* JavaScript numbers.  The clock's minute counts are IEEE-754 doubles; a   *)
(* double near a whole number n is kept as [n, k], the value n + k * 2^-52. *)
(***************************************************************************)
RECURSIVE Pow2(_)
Pow2(e) == IF e <= 0 THEN 1 ELSE 2 * Pow2(e - 1)

\* floor(log2(n)) for n >= 1
RECURSIVE Log2(_)
Log2(n) == IF n < 2 THEN 0 ELSE 1 + Log2(n \div 2)

Double(n, k) == [n |-> n, k |-> k]

\* The multiple of q nearest to k, the even one of two equally near.
RoundTo(k, q) ==
    LET r == k % q
        lo == k - r
    IN  IF 2 * r < q THEN lo
        ELSE IF 2 * r > q THEN lo + q
        ELSE IF (lo \div q) % 2 = 0 THEN lo ELSE lo + q

\* The spacing of the doubles around n + k * 2^-52, in units of 2^-52: 2^e for a
\* value in [2^e, 2^(e+1)), e >= 0.
Quantum(n, k) ==
    IF n = 0
    THEN 1
    ELSE Pow2(IF k < 0 /\ n = Pow2(Log2(n)) THEN Log2(n) - 1 ELSE Log2(n))

\* The double nearest to the exact value.
RoundToDouble(n, k) == Double(n, RoundTo(k, Quantum(n, k)))

\* a + b and a - b
FAdd(a, b) == RoundToDouble(a.n + b.n, a.k + b.k)

FSub(a, b) == RoundToDouble(a.n - b.n, a.k - b.k)

\* a >= 60
AtLeast60(a) == a.n > 60 \/ (a.n = 60 /\ a.k >= 0)

\* The e with mult * 2^e <= m < mult * 2^(e+1), for m >= 1.
RECURSIVE QuotientExponent(_, _)
QuotientExponent(m, mult) ==
    IF m < mult THEN QuotientExponent(2 * m, mult) - 1
    ELSE IF m >= 2 * mult THEN QuotientExponent(m, 2 * mult) + 1
    ELSE 0

\* r * 2^p modulo mod
RECURSIVE ShiftMod(_, _, _)
ShiftMod(r, p, mod) ==
    IF p = 0 THEN r % mod ELSE ShiftMod((2 * r) % mod, p - 1, mod)

\* m / mult: the double with 53 significant bits nearest to the quotient.  It is
\* kept as the quotient it rounds: the value is m / mult - rem / (mult * 2^(52-e)).
Divide(m, mult) ==
    IF m = 0
    THEN [m |-> 0, mult |-> mult, e |-> 0, rem |-> 0]
    ELSE LET e == QuotientExponent(m, mult)
             R == ShiftMod(m % (2 * mult), 52 - e, 2 * mult)
             r == R % mult
             odd == R >= mult
         IN  [ m |-> m, mult |-> mult, e |-> e,
               rem |-> IF 2 * r < mult THEN r
                       ELSE IF 2 * r > mult THEN r - mult
                       ELSE IF odd THEN r - mult ELSE r ]

\* A whole number of seconds as a double.
Whole(m) == [m |-> m, mult |-> 1, e |-> 0, rem |-> 0]

\* q * mult for a quotient by the same mult or for a whole number (m >= 2): the
\* exact product is m - rem * 2^(e-52), rounded to the doubles around m.
Times(q, mult) ==
    IF q.mult = 1
    THEN Double(q.m * mult, 0)
    ELSE IF q.m = 0
    THEN Double(0, 0)
    ELSE LET em == IF q.rem > 0 /\ q.m = Pow2(Log2(q.m))
                   THEN Log2(q.m) - 1 ELSE Log2(q.m)
             s == em - q.e
         IN  Double(q.m, (RoundTo(-q.rem, Pow2(s)) \div Pow2(s)) * Pow2(em))

(***************************************************************************)
(* TimeSystem                                                              *)
(***************************************************************************)
TimeMultiplier == 60

WorkHours == [start |-> 8, end |-> 18]

\* One turn of the while loop of incrementTime.
RollHour(S) ==
    LET S1 == [S EXCEPT !.time.minute = FSub(@, Double(60, 0)),
                        !.time.hour = @ + 1]
        S2 == Publish(S1, "time:hour-changed", ToString(S1.time.hour))
        S3 == IF S2.time.hour >= 24
              THEN Publish([S2 EXCEPT !.time.hour = 0, !.time.day = @ + 1],
                           "time:new-day", ToString(S2.time.day + 1))
              ELSE S2
    IN  IF S3.time.hour = WorkHours.start
        THEN Publish(S3, "time:workday-start", "")
        ELSE IF S3.time.hour = WorkHours.end
        THEN Publish(S3, "time:workday-end", "")
        ELSE S3

RECURSIVE RollOver(_)
RollOver(S) == IF AtLeast60(S.time.minute) THEN RollOver(RollHour(S)) ELSE S

IncrementTime(S, realSeconds) ==
    LET gameMinutes == Times(realSeconds, TimeMultiplier)
    IN  RollOver([S EXCEPT !.time.totalMinutes = FAdd(@, gameMinutes),
                           !.time.minute = FAdd(@, gameMinutes)])

TimeTick(S) == Publish(IncrementTime(S, Whole(1)), "time:tick", "")

SkipTime(S, hours, minutes) ==
    Publish(IncrementTime(S, Divide(hours * 60 + minutes, TimeMultiplier)),
            "time:skipped", "")

Start(S) ==
    IF S.running THEN S ELSE Publish([S EXCEPT !.running = TRUE], "time:started", "")

Stop(S) ==
    IF ~S.running THEN S ELSE Publish([S EXCEPT !.running = FALSE], "time:stopped", "")

(***************************************************************************)
(* SpecTime: the TimeSystem alone, ticked by its interval and skipped.      *)
(***************************************************************************)
MaxDay == 2

SkipInputs == { <<0, 57>>, <<0, 123>>, <<2, 0>>, <<25, 0>> }

InitTime ==
    /\ materials = [m \in Materials |-> 0]
    /\ items = [i \in StockIds |-> 0]
    /\ tools = <<>>
    /\ money = 0
    /\ InitRest

DoTimeTick ==
    /\ isRunning
    /\ time.day < MaxDay
    /\ Commit(TimeTick(St), Op("time.tick", "", TimeMultiplier, TRUE))

DoSkipTime ==
    \E skip \in SkipInputs :
        /\ time.day < MaxDay
        /\ Commit(SkipTime(St, skip[1], skip[2]),
                  Op("skipTime", "", skip[1] * 60 + skip[2], TRUE))

DoStart == Commit(Start(St), Op("start", "", 0, TRUE))

DoStop == Commit(Stop(St), Op("stop", "", 0, TRUE))

NextTime == DoTimeTick \/ DoSkipTime \/ DoStart \/ DoStop

SpecTime == InitTime /\ [][NextTime]_vars

\* The boundary events of n hours passing after hour o'clock of the day, in
\* the order of the clock.
RECURSIVE Boundaries(_, _, _)
Boundaries(hour, day, n) ==
    IF n = 0
    THEN <<>>
    ELSE IF hour + 1 >= 24
    THEN << Ev("time:hour-changed", ToString(hour + 1)),
            Ev("time:new-day", ToString(day + 1)) >> \o Boundaries(0, day + 1, n - 1)
    ELSE << Ev("time:hour-changed", ToString(hour + 1)) >>
         \o Boundaries(hour + 1, day, n - 1)

IsBoundary(e) == e.name \in {"time:hour-changed", "time:new-day"}

\* C26: a tick or a skip that adds lastOp'.n game minutes publishes one
\* time:hour-changed for every hour boundary and one time:new-day for every day
\* boundary these minutes cross, in the order of the clock; afterwards
\* 0 <= minute < 60, 0 <= hour < 24 and totalMinutes is larger by exactly the
\* minutes added.
C26_BoundariesEachPublished ==
    [][ lastOp'.op \in {"time.tick", "skipTime"}
        => /\ SelectSeq(events', IsBoundary)
                = Boundaries(time.hour, time.day, (time.minute.n + lastOp'.n) \div 60)
           /\ ~AtLeast60(time'.minute)
           /\ time'.minute.n > 0 \/ (time'.minute.n = 0 /\ time'.minute.k >= 0)
           /\ time'.hour \in 0..23
           /\ time'.totalMinutes
                = Double(time.totalMinutes.n + lastOp'.n, time.totalMinutes.k) ]_vars

(***************************************************************************)
(* Game (main.js): the loop that updates the systems once a second.  The    *)
(* Game builds its ContractSystem without the items data, so the            *)
(* generateContract of that instance raises a TypeError when it reads       *)
(* this.itemsData.items.                                                    *)
(***************************************************************************)
\* contracts.update() of the Game's instance: S is the state it leaves, raised
\* whether it ended in the TypeError.
ContractsUpdateInGame(S) ==
    LET S1 == [S EXCEPT !.timer = @ + 1]
    IN  IF S1.timer >= ContractInterval
        THEN IF Len(S1.active) >= MaxContracts
             THEN [S |-> CheckExpiredContracts([S1 EXCEPT !.timer = 0]), raised |-> FALSE]
             ELSE [S |-> [S1 EXCEPT !.timer = 0], raised |-> TRUE]
        ELSE [S |-> CheckExpiredContracts(S1), raised |-> FALSE]

\* tick(): coal, crafting, storefront, contracts, workers, events, each to its
\* end, the next one only if the one before returned.  ret is FALSE for a tick
\* that ended in an exception.
Tick(S, visit, roll, pick) ==
    LET C == ContractsUpdateInGame(StoreUpdate(CraftUpdate(CoalUpdate(S)), visit))
    IN  IF C.raised
        THEN Return(C.S, FALSE)
        ELSE Return(EventsUpdate(WorkersUpdate(C.S), roll, pick), TRUE)

(***************************************************************************)
(* SpecGame: the two intervals of a running game, the game loop and the     *)
(* ticker of the TimeSystem, each callback run to its end before the next.  *)
(***************************************************************************)
\* A game under way: the forge nearly cold, the three timers two updates
\* before their intervals, the clock started by init().
InitGame ==
    /\ materials = [m \in Materials |-> 0]
    /\ items = [i \in StockIds |-> 0]
    /\ tools = <<>>
    /\ money = 0
    /\ level = 3
    /\ hasWarnedAboutLowCoal = TRUE
    /\ currentCraft = NoJob
    /\ craftingQueue = <<>>
    /\ speedMultiplier = 10
    /\ jobsStarted = 0
    /\ activeContracts = <<>>
    /\ specialContracts = <<>>
    /\ contractTimer = ContractInterval - 2
    /\ contractsMade = 0
    /\ InitCatalog
    /\ InitWorkforce
    /\ InitEmitter
    /\ storefrontItems = <<>>
    /\ demandMultipliers = <<>>
    /\ customerTimer = CustomerCheckInterval - 2
    /\ activeEvents = <<>>
    /\ eventCheckTimer = EventCheckInterval - 2
    /\ time = [ day |-> 1, hour |-> 8, minute |-> Double(0, 0),
                totalMinutes |-> Double(0, 0) ]
    /\ isRunning = TRUE
    /\ now = 0
    /\ lowsSinceRefill = 0
    /\ craftTicks = 0
    /\ craftSteady = FALSE
    /\ events = <<>>
    /\ lastOp = NoOp

\* The customer draws of a tick: nobody comes, or somebody who would buy a nail.
TickVisits ==
    { [comes |-> FALSE, itemId |-> "nail", buys |-> FALSE, wanted |-> 1],
      [comes |-> TRUE, itemId |-> "nail", buys |-> TRUE, wanted |-> 1] }

DoTick ==
    \E visit \in TickVisits, roll \in BOOLEAN, pick \in Draws :
        LET T == Tick(St, visit, roll, pick)
        IN  /\ contractTimer < MaxTimer \/ contractTimer >= ContractInterval - MaxTimer
            /\ customerTimer < MaxTimer
               \/ customerTimer >= CustomerCheckInterval - MaxTimer
            /\ eventCheckTimer < MaxTimer
               \/ eventCheckTimer >= EventCheckInterval - MaxTimer
            /\ Commit(T, Op("tick", IF T.ret THEN "" ELSE "contracts", 0, T.ret))

NextGame == DoTick \/ DoTimeTick \/ DoStart \/ DoStop \/ DoClockPasses

SpecGame == InitGame /\ [][NextGame]_vars

\* C27: every tick of the game loop advances the clock once, by the game
\* minutes of one second, together with the updates of the other systems.
C27_ClockOncePerTick ==
    [][ lastOp'.op = "tick"
        => time'.totalMinutes.n = time.totalMinutes.n + TimeMultiplier ]_vars

\* C28: a tick in which a system's update raises still runs the updates of
\* the systems after it: the workers' and the events' update.
C28_TickOutlivesRaise ==
    [][ (lastOp'.op = "tick" /\ lastOp'.arg # "")
        => eventCheckTimer' = IF eventCheckTimer + 1 >= EventCheckInterval
                              THEN 0 ELSE eventCheckTimer + 1 ]_vars

(***************************************************************************)
(* SaveSystem.loadGame over the systems the Game hands to it: inventory,    *)
(* coal, blueprints, contracts, workers, time, in that order.               *)
(***************************************************************************)
CoalSerialize(S) == [level |-> S.level, hasWarnedAboutLowCoal |-> S.warned]

CoalDeserialize(S, data) ==
    EmitCoalUpdated([S EXCEPT !.level = data.level,
                              !.warned = data.hasWarnedAboutLowCoal])

\* JSON.parse(JSON.stringify(hiringDiscounts)): expiryTime comes back as a string.
DiscountsToJSON(discounts) ==
    [k \in DOMAIN discounts |->
        [discounts[k] EXCEPT !.expiryTime = [type |-> "string", text |-> DateToJSON(@)]]]

WorkerSerialize(S) == [workers |-> S.workers, hiringDiscounts |-> S.discounts]

\* if (discount.expiryTime && typeof discount.expiryTime === 'string')
\*     discount.expiryTime = new Date(discount.expiryTime)
WorkerDeserialize(S, data) ==
    [S EXCEPT !.workers = data.workers,
              !.discounts = [k \in DOMAIN data.hiringDiscounts |->
                  IF data.hiringDiscounts[k].expiryTime.type = "string"
                  THEN [data.hiringDiscounts[k] EXCEPT !.expiryTime = DateParse(@.text)]
                  ELSE data.hiringDiscounts[k]]]

TimeSerialize(S) == [time |-> S.time, isRunning |-> S.running]

TimeDeserialize(S, data) ==
    LET S1 == Publish([S EXCEPT !.time = data.time], "time:updated", "")
    IN  IF data.isRunning THEN Start(S1) ELSE S1

\* JSON.parse(JSON.stringify(collectGameState())) plus meta.
CollectGameState(S) ==
    [ inventory |-> InventorySerialize(S),
      coal |-> CoalSerialize(S),
      blueprints |-> S.blueprints,
      contracts |->
          [ContractSerialize(S) EXCEPT !.activeContracts = ContractsToJSON(@),
                                       !.specialContracts = ContractsToJSON(@)],
      workers |-> [WorkerSerialize(S) EXCEPT !.hiringDiscounts = DiscountsToJSON(@)],
      time |-> TimeSerialize(S) ]

\* What a slot of localStorage holds: nothing, text that is no JSON, or a game
\* state; meta says whether the state has its meta block, iterable whether
\* contracts.activeContracts is an array (a damaged save may hold an object).
Slot(kind, meta, iterable, gameState) ==
    [kind |-> kind, meta |-> meta, iterable |-> iterable, gameState |-> gameState]

\* loadGameState: the deserialize of each system in turn; raised tells that one
\* of them ended in an exception, S is the state at that moment.
LoadGameState(S, stored) ==
    LET g == stored.gameState
        S3 == BlueprintDeserialize(
                  CoalDeserialize(InventoryDeserialize(S, g.inventory), g.coal),
                  g.blueprints)
    IN  IF ~stored.iterable
        THEN [S |-> S3, raised |-> TRUE]
        ELSE [S |-> TimeDeserialize(
                        WorkerDeserialize(ContractDeserialize(S3, g.contracts),
                                          g.workers),
                        g.time),
              raised |-> FALSE]

LoadGame(S, slotName, stored) ==
    IF stored.kind = "absent"
    THEN Return(IF slotName # "auto" THEN Publish(S, "notification:warning", "") ELSE S,
                FALSE)
    ELSE IF stored.kind = "text"
    THEN Return(Publish(S, "notification:error", "Failed to load game."), FALSE)
    ELSE IF ~stored.meta
    THEN Return(Publish(S, "notification:error", "Invalid save data."), FALSE)
    ELSE LET L == LoadGameState(S, stored)
         IN  IF L.raised
             THEN Return(Publish(L.S, "notification:error", "Failed to load game."), FALSE)
             ELSE Return(IF slotName # "auto"
                         THEN Publish(Publish(L.S, "save:loaded", slotName),
                                      "notification:success", "")
                         ELSE Publish(L.S, "save:loaded", slotName),
                         TRUE)

(***************************************************************************)
(* SpecLoad: a shop in the middle of a game that loads what a slot holds.   *)
(***************************************************************************)
\* The game as it was saved right after it began: the stock of a new
\* InventorySystem, a full forge, the initial blueprints, no contract, nobody
\* hired, the clock at eight on day 1 and running.
NewGame(S) ==
    [FreshInstances(S) EXCEPT !.level = FullLevel, !.warned = FALSE,
                              !.blueprints = {i \in ItemIds : ItemsData[i].unlocked},
                              !.workers = <<>>, !.discounts = <<>>,
                              !.time = [ day |-> 1, hour |-> 8, minute |-> Double(0, 0),
                                         totalMinutes |-> Double(0, 0) ],
                              !.running = TRUE]

SlotNames == {"auto", "slot1"}

Slots ==
    { Slot(kind, meta, iterable, CollectGameState(NewGame(St))) :
          kind \in {"absent", "text", "json"}, meta \in BOOLEAN, iterable \in BOOLEAN }

InitLoad ==
    /\ materials = [m \in Materials |-> IF m = "coal" THEN 50 ELSE 0]
    /\ items = [i \in StockIds |-> 0]
    /\ tools = <<>>
    /\ money = 2500
    /\ level = 44
    /\ hasWarnedAboutLowCoal = FALSE
    /\ currentCraft = NoJob
    /\ craftingQueue = <<>>
    /\ speedMultiplier = 10
    /\ jobsStarted = 0
    /\ activeContracts = << Contract(1, "nail", 40, 12, 110) >>
    /\ specialContracts = <<>>
    /\ contractTimer = 7
    /\ contractsMade = 1
    /\ InitCatalog
    /\ InitWorkforce
    /\ InitEmitter
    /\ InitStore
    /\ InitEvents
    /\ InitClock
    /\ now = 0
    /\ lowsSinceRefill = 0
    /\ craftTicks = 0
    /\ craftSteady = FALSE
    /\ events = <<>>
    /\ lastOp = NoOp

DoLoadGame ==
    \E slotName \in SlotNames, stored \in Slots :
        LET L == LoadGame(St, slotName, stored)
        IN  Commit(L, Op("loadGame", stored.kind, 0, L.ret))

NextLoad ==
    \/ DoLoadGame
    \/ DoRejectContract
    \/ DoSetHiringDiscount
    \/ DoClockPasses

SpecLoad == InitLoad /\ [][NextLoad]_vars

\* C29: a loadGame that returns false leaves the ledger, the forge, the
\* blueprints, the board, the workers and the clock exactly as they were.
C29_FailedLoadTouchesNothing ==
    [][ (lastOp'.op = "loadGame" /\ lastOp'.ret = FALSE)
        => UNCHANGED <<materials, items, tools, money, level, hasWarnedAboutLowCoal,
                       unlockedBlueprints, itemUnlocked, activeContracts,
                       specialContracts, contractTimer, workers, hiringDiscounts,
                       time, isRunning>> ]_vars

(***************************************************************************)
(* StorefrontSystem.serialize / JSON / deserialize                         *)
(***************************************************************************)
\* JSON.stringify of a timestamp: a Date becomes its text, a text stays, null
\* stays.
StampToJSON(v) == IF v.type = "object" THEN DateText(v.t) ELSE v

StorefrontSerialize(S) ==
    [ storefrontItems |-> S.store, demandMultipliers |-> S.demand,
      customerTimer |-> S.custTimer ]

\* JSON.parse(JSON.stringify(serialize()))
StorefrontToJSON(data) ==
    [ storefrontItems |->
          [i \in DOMAIN data.storefrontItems |->
              [data.storefrontItems[i] EXCEPT !.lastSold = StampToJSON(@)]],
      demandMultipliers |->
          [i \in DOMAIN data.demandMultipliers |->
              [data.demandMultipliers[i] EXCEPT !.expiryTime = StampToJSON(@)]],
      customerTimer |-> data.customerTimer ]

\* The three copies of deserialize; no timestamp is converted.
StorefrontDeserialize(S, data) ==
    Publish([S EXCEPT !.store = data.storefrontItems,
                      !.demand = data.demandMultipliers,
                      !.custTimer = data.customerTimer],
            "storefront:updated", "")

\* The storefront is saved, built anew and loaded from the snapshot.
StoreReload(S) ==
    StorefrontDeserialize([S EXCEPT !.store = <<>>, !.demand = <<>>, !.custTimer = 0],
                          StorefrontToJSON(StorefrontSerialize(S)))

(***************************************************************************)
(* SpecDemand: a storefront whose demand changes, that is saved and loaded  *)
(* and updated while the wall clock moves on.                               *)
(***************************************************************************)
\* The demand an event sets: the item, the multiplier, the minutes it lasts.
DemandOffers ==
    { [item |-> "nail", multiplier |-> 150, minutes |-> 2],
      [item |-> "bullets", multiplier |-> 0, minutes |-> 1] }

InitDemand ==
    /\ materials = [m \in Materials |-> 0]
    /\ items = [i \in StockIds |-> 0]
    /\ tools = <<>>
    /\ money = 0
    /\ level = 200
    /\ hasWarnedAboutLowCoal = FALSE
    /\ currentCraft = NoJob
    /\ craftingQueue = <<>>
    /\ speedMultiplier = 10
    /\ jobsStarted = 0
    /\ activeContracts = <<>>
    /\ specialContracts = <<>>
    /\ contractTimer = 0
    /\ contractsMade = 0
    /\ InitCatalog
    /\ InitWorkforce
    /\ InitEmitter
    /\ storefrontItems = [i \in {"nail"} |->
                            [quantity |-> 2, price |-> 0, lastSold |-> NullDate]]
    /\ demandMultipliers = <<>>
    /\ customerTimer = CustomerCheckInterval - 2
    /\ InitEvents
    /\ InitClock
    /\ now = 0
    /\ lowsSinceRefill = 0
    /\ craftTicks = 0
    /\ craftSteady = FALSE
    /\ events = <<>>
    /\ lastOp = NoOp

DoSetDemandMultiplier ==
    \E offer \in DemandOffers :
        Commit(SetDemandMultiplier(St, offer.item, offer.multiplier, now + offer.minutes),
               Op("setDemandMultiplier", offer.item, offer.multiplier, TRUE))

DoStoreReload == Commit(StoreReload(St), Op("storefront.reload", "", 0, TRUE))

NextDemand ==
    \/ DoSetDemandMultiplier
    \/ DoStoreReload
    \/ DoStoreUpdate
    \/ DoClockPasses

SpecDemand == InitDemand /\ [][NextDemand]_vars

\* C30: after the storefront went through the JSON snapshot the expiry of every
\* demand multiplier is a time value again: a multiplier that had not run out
\* before the save is what getDemandMultiplier returns after the load, and an
\* update that comes when its expiry has passed removes it.
C30_DemandSurvivesReload ==
    /\ [](\A i \in DOMAIN demandMultipliers :
              demandMultipliers[i].expiryTime.type = "object")
    /\ [][ lastOp'.op = "storefront.reload"
           => \A i \in DOMAIN demandMultipliers :
                  After(demandMultipliers[i].expiryTime, now)
                  => GetDemandMultiplier(St', i) = demandMultipliers[i].multiplier ]_vars
    /\ [][ lastOp'.op = "storefront.update"
           => \A i \in DOMAIN demandMultipliers' :
                  After(demandMultipliers'[i].expiryTime, now) ]_vars

\* C31: with the default configuration one clock tick (one real second)
\* advances the game time by exactly one in-game minute: totalMinutes grows by
\* one, and the clock of day, hour and minute moves on by one minute.
C31_TickIsOneMinute ==
    [][ lastOp'.op = "time.tick"
        => /\ time'.totalMinutes
                = Double(time.totalMinutes.n + 1, time.totalMinutes.k)
           /\ (time'.day * 24 + time'.hour) * 60 + time'.minute.n
                = (time.day * 24 + time.hour) * 60 + time.minute.n + 1 ]_vars

\* C32: when update() finds the level at or below the low threshold and the
\* ledger holds at least one refill batch of coal, it refills and publishes no
\* coal:low in that tick; coal:low is published only in ticks where the
\* refill cannot be performed.
C32_RefillInsteadOfWarning ==
    [][ lastOp'.op = "coal.update" /\ level > 0
        => LET depleted == IF level - DepletionRate < 0 THEN 0 ELSE level - DepletionRate
               canRefill == /\ depleted <= LowThreshold
                            /\ materials["coal"] >= CoalPerRefill
           IN  /\ canRefill => /\ CountName(events', "coal:refilled") = 1
                               /\ level' = FullLevel
                               /\ CountName(events', "coal:low") = 0
               /\ CountName(events', "coal:low") > 0 => ~canRefill ]_vars

(***************************************************************************)
(* SpecForge: the crafting operations next to a forge that can be refilled  *)
(* once, so that a job paused for lack of coal can be resumed.              *)
(***************************************************************************)
InitForge ==
    /\ materials = [m \in Materials |->
                      CASE m = "iron" -> 24 [] m = "wood" -> 5
                        [] m = "coal" -> 60 [] OTHER -> 5]
    /\ items = [i \in StockIds |-> 0]
    /\ tools = [t \in {"hammer", "anvil", "tongs", "file"} |->
                  CASE t = "hammer" -> [uses |-> 3, maxUses |-> 30]
                    [] t = "anvil"  -> [uses |-> 1, maxUses |-> 50]
                    [] t = "tongs"  -> [uses |-> 4, maxUses |-> 40]
                    [] t = "file"   -> [uses |-> 3, maxUses |-> 35]]
    /\ money = 0
    /\ level = 44
    /\ hasWarnedAboutLowCoal = FALSE
    /\ currentCraft = NoJob
    /\ craftingQueue = <<>>
    /\ speedMultiplier = 10
    /\ jobsStarted = 0
    /\ activeContracts = <<>>
    /\ specialContracts = <<>>
    /\ contractTimer = 0
    /\ contractsMade = 0
    /\ InitCatalog
    /\ InitWorkforce
    /\ InitEmitter
    /\ InitStore
    /\ InitEvents
    /\ InitClock
    /\ now = 0
    /\ lowsSinceRefill = 0
    /\ craftTicks = 0
    /\ craftSteady = FALSE
    /\ events = <<>>
    /\ lastOp = NoOp

\* The items of the price list that a new shop can forge, one batch at a time.
ForgeInputs == {"nail", "new_chisel"}

DoForgeStart ==
    \E itemId \in ForgeInputs :
        LET started == StartCrafting(St, itemId, 1)
        IN  /\ started.ret => jobsStarted < MaxJobs
            /\ Commit(started, Op("startCrafting", itemId, 1, started.ret))

\* The smith refills once the forge is too cold to work.
DoRefillWhenLow ==
    /\ level < MinCoalLevel
    /\ DoRefill

NextForge ==
    \/ DoForgeStart
    \/ DoCraftUpdate
    \/ DoResumeCrafting
    \/ DoCancelCurrentCraft
    \/ DoCancelQueuedCraft
    \/ DoRefillWhenLow

SpecForge == InitForge /\ [][NextForge]_vars

\* C33: while the current job is paused, update() leaves its progress
\* unchanged and does not complete it; resumeCrafting makes a job paused for
\* lack of coal active again only if the forge level is at least the minimum
\* (20), and otherwise returns false and leaves the job paused.
C33_PausedJobWaitsForFuel ==
    [][ /\ lastOp'.op = "crafting.update" /\ currentCraft # NoJob /\ currentCraft.paused
           => /\ currentCraft' = currentCraft
              /\ items' = items
              /\ tools' = tools
              /\ CountName(events', "item:crafted") = 0
        /\ /\ lastOp'.op = "resumeCrafting"
           /\ currentCraft # NoJob
           /\ currentCraft.paused
           /\ currentCraft.pauseReason = "Not enough coal"
           => IF level >= MinCoalLevel
              THEN /\ lastOp'.ret
                   /\ currentCraft' = [currentCraft EXCEPT !.paused = FALSE,
                                                           !.pauseReason = ""]
              ELSE /\ ~lastOp'.ret
                   /\ currentCraft' = currentCraft ]_vars

\* A job that was paused for lack of coal with progress made, resumed after a
\* refill.
C33_Witness ==
    /\ lastOp.op = "resumeCrafting"
    /\ lastOp.ret
    /\ CountName(events, "crafting:resumed") = 1
    /\ currentCraft.progress > 0
    /\ ~currentCraft.paused
    /\ level >= MinCoalLevel

\* The fatigue a worker with the given task accrues in one update(), in
\* hundredths, as the rule of C34 has it.
C34_Accrual(worker, task) ==
    CASE task.type = "crafting" -> (20 * WorkerTypes[worker.type].fatigueRate) \div 100
      [] task.type = "coal" -> 5
      [] OTHER -> 10

\* C34: on each update(), every worker that is not resting and is below its
\* maximum fatigue accrues fatigue, capped at the maximum of its type: 0.2 x
\* fatigueRate with a crafting task, 0.05 with a fuel-monitoring task and 0.1
\* when it has no task (the task it has once its task was handled); fatigue
\* stays within [0, type maximum].
C34_FatigueAccrues ==
    [][ lastOp'.op = "workers.update"
        => \A i \in 1..Len(workers) :
               /\ workers'[i].fatigue \in 0..MaxFatigueOf(workers[i])
               /\ (~workers[i].resting /\ workers[i].fatigue < MaxFatigueOf(workers[i]))
                  => workers'[i].fatigue
                       = Min(workers[i].fatigue
                               + C34_Accrual(workers[i], workers'[i].currentTask),
                             MaxFatigueOf(workers[i])) ]_vars

(***************************************************************************)
(* SpecCustomers: customers visit a storefront with boxes of nails while    *)
(* events raise and lower the demand.                                       *)
(***************************************************************************)
\* Demand multipliers as events.js sets them (1.5, 1.8, 0.7), for five minutes.
CustomerDemands == {150, 180, 70}

\* The outcomes of the draws of a visit: Math.floor(Math.random() * 3 *
\* demandMultiplier) + 1 is at most 6 for the demands above.
CustomerVisits ==
    {[comes |-> FALSE, itemId |-> "nail", buys |-> FALSE, wanted |-> 1]}
    \cup {[comes |-> TRUE, itemId |-> "nail", buys |-> b, wanted |-> w] :
              b \in BOOLEAN, w \in {1, 2, 4, 5, 6}}

\* The boxes of nails on the listing when the customers come.
CustomerStocks == {1, 2, 6}

InitCustomers ==
    /\ materials = [m \in Materials |-> 0]
    /\ items = [i \in StockIds |-> 0]
    /\ tools = <<>>
    /\ money = 0
    /\ level = 200
    /\ hasWarnedAboutLowCoal = FALSE
    /\ currentCraft = NoJob
    /\ craftingQueue = <<>>
    /\ speedMultiplier = 10
    /\ jobsStarted = 0
    /\ activeContracts = <<>>
    /\ specialContracts = <<>>
    /\ contractTimer = 0
    /\ contractsMade = 0
    /\ InitCatalog
    /\ InitWorkforce
    /\ InitEmitter
    /\ storefrontItems \in { [i \in {"nail"} |->
                               [quantity |-> q, price |-> GetItemBasePrice("nail"),
                                lastSold |-> NullDate]] : q \in CustomerStocks }
    /\ demandMultipliers = <<>>
    /\ customerTimer = CustomerCheckInterval - 1
    /\ InitEvents
    /\ InitClock
    /\ now = 0
    /\ lowsSinceRefill = 0
    /\ craftTicks = 0
    /\ craftSteady = FALSE
    /\ events = <<>>
    /\ lastOp = NoOp

DoSetCustomerDemand ==
    \E multiplier \in CustomerDemands :
        Commit(SetDemandMultiplier(St, "nail", multiplier, now + 5),
               Op("setDemandMultiplier", "nail", multiplier, TRUE))

\* lastOp.n is the number of boxes that left the listing.
DoCustomerUpdate ==
    \E visit \in CustomerVisits :
        LET updated == StoreUpdate(St, visit)
        IN  /\ customerTimer < MaxTimer \/ customerTimer >= CustomerCheckInterval - MaxTimer
            /\ Commit(updated,
                      Op("storefront.update", "",
                         C21_ListedNow("nail")
                           - (IF Listed(updated, "nail")
                              THEN updated.store["nail"].quantity ELSE 0),
                         TRUE))

NextCustomers ==
    \/ DoSetCustomerDemand
    \/ DoCustomerUpdate
    \/ DoClockPasses

SpecCustomers == InitCustomers /\ [][NextCustomers]_vars

C36_UnlockedForGood ==
    [][ \A i \in ItemIds : itemUnlocked[i] => itemUnlocked'[i] ]_vars

\* C36, amended: unlockBlueprint and purchaseBlueprint change a flag from false
\* to true only; deserialize sets the flag of every item to its membership in
\* the snapshot's set of unlocked blueprints, so an item unlocked after the
\* snapshot was taken is locked again.  The flags and the set agree in every
\* state.
C36_UnlockedUntilLoad ==
    /\ [](\A i \in ItemIds : itemUnlocked[i] <=> i \in unlockedBlueprints)
    /\ [][ /\ lastOp'.op # "blueprints.deserialize"
              => \A i \in ItemIds : itemUnlocked[i] => itemUnlocked'[i]
           /\ lastOp'.op = "blueprints.deserialize"
              => /\ unlockedBlueprints' \in SavedBlueprints
                 /\ \A i \in ItemIds : itemUnlocked'[i] <=> i \in unlockedBlueprints' ]_vars

\* The chisel, unlocked from the start, is locked after a snapshot without it
\* was loaded.
C36_Witness ==
    /\ lastOp.op = "blueprints.deserialize"
    /\ ItemsData["new_chisel"].unlocked
    /\ ~itemUnlocked["new_chisel"]
    /\ "new_chisel" \notin unlockedBlueprints

(***************************************************************************)
(* SpecShift: one hired worker is given crafting tasks in a shop that can   *)
(* afford a chisel and some nails; the workers and the crafting system are  *)
(* updated.  Every job of this shop is started by the worker.               *)
(***************************************************************************)
ShiftTasks ==
    { [type |-> "crafting", itemId |-> "new_chisel"],
      [type |-> "crafting", itemId |-> "nail"] }

InitShift ==
    /\ materials = [m \in Materials |->
                      CASE m = "iron" -> 14 [] m = "wood" -> 5 [] OTHER -> 0]
    /\ items = [i \in StockIds |-> 0]
    /\ tools = [t \in {"hammer", "anvil", "tongs", "file"} |->
                  CASE t = "hammer" -> [uses |-> 3, maxUses |-> 30]
                    [] t = "anvil"  -> [uses |-> 2, maxUses |-> 50]
                    [] t = "tongs"  -> [uses |-> 4, maxUses |-> 40]
                    [] t = "file"   -> [uses |-> 3, maxUses |-> 35]]
    /\ money = 0
    /\ level = 60
    /\ hasWarnedAboutLowCoal = FALSE
    /\ currentCraft = NoJob
    /\ craftingQueue = <<>>
    /\ speedMultiplier = 10
    /\ jobsStarted = 0
    /\ activeContracts = <<>>
    /\ specialContracts = <<>>
    /\ contractTimer = 0
    /\ contractsMade = 0
    /\ InitCatalog
    /\ workers \in { << [ id |-> 1, type |-> type, fatigue |-> 0,
                          currentTask |-> NoTask, resting |-> FALSE,
                          highFatigueWarning |-> FALSE, wasResting |-> FALSE ] >> :
                     type \in DOMAIN WorkerTypes }
    /\ hiringDiscounts = <<>>
    /\ InitEmitter
    /\ InitStore
    /\ InitEvents
    /\ InitClock
    /\ now = 0
    /\ lowsSinceRefill = 0
    /\ craftTicks = 0
    /\ craftSteady = FALSE
    /\ events = <<>>
    /\ lastOp = NoOp

DoAssignShiftTask ==
    \E task \in ShiftTasks :
        Commit(AssignTask(St, 1, task),
               Op("assignTask", task.type, 1, AssignTask(St, 1, task).ret))

\* The workers are updated while the worker is fresh and has started fewer
\* than MaxJobs jobs.
DoShiftUpdate ==
    /\ jobsStarted < MaxJobs
    /\ workers[1].fatigue <= FatigueWindow
    /\ Commit(WorkersUpdate(St), Op("workers.update", "", 0, TRUE))

NextShift ==
    \/ DoAssignShiftTask
    \/ DoShiftUpdate
    \/ DoCraftUpdate

SpecShift == InitShift /\ [][NextShift]_vars

\* C37: a job started by a worker's crafting task advances per tick by the
\* speed multiplier of that worker's type (0.8 apprentice, 1.0 journeyman, 1.3
\* master), and the crafting system's own multiplier has its previous value
\* again once the worker's start attempt returns.
C37_WorkerSpeedApplies ==
    /\ [][ lastOp'.op = "workers.update" => speedMultiplier' = speedMultiplier ]_vars
    /\ [][ ( /\ lastOp'.op = "crafting.update"
             /\ currentCraft # NoJob
             /\ ~currentCraft.paused
             /\ HasEnoughCoal(St) )
           => LET advanced == currentCraft.progress
                                + WorkerTypes[workers[1].type].speedMultiplier
              IN  IF advanced >= currentCraft.craftingTime
                  THEN currentCraft' = NoJob
                  ELSE currentCraft' = [currentCraft EXCEPT !.progress = advanced] ]_vars

\* C38: in every state reached from the initial state by startCrafting,
\* update, resumeCrafting, cancelCurrentCraft and cancelQueuedCraft a queue
\* that is not empty implies a current job: no queued job waits behind an
\* empty slot.
C38_NoQueueBehindEmptySlot ==
    craftingQueue # <<>> => currentCraft # NoJob

\* Three jobs were started, the current one was cancelled: the first of the
\* queue is the current job and one job still waits.
C38_Witness ==
    /\ lastOp.op = "cancelCurrentCraft"
    /\ lastOp.ret
    /\ jobsStarted = 3
    /\ currentCraft # NoJob
    /\ currentCraft.jobNo = 2
    /\ Len(craftingQueue) = 1

\* C39: whenever update() returns with a current job still present, that
\* job's progress is strictly less than its crafting time: a job whose progress
\* has reached its duration is completed in that same tick and is never left
\* as the current job, also when the fuel check pauses it.
C39_ProgressBelowDuration ==
    [][ lastOp'.op = "crafting.update" /\ currentCraft' # NoJob
        => currentCraft'.progress < currentCraft'.craftingTime ]_vars

(***************************************************************************)
(* SpecDeadline: three contracts that run out within the next minutes,     *)
(* while the wall clock moves on between the calls.                         *)
(***************************************************************************)
InitDeadline ==
    /\ materials = [m \in Materials |-> 0]
    /\ items = [i \in StockIds |->
                  CASE i = "nail" -> 140 [] i = "bullets" -> 2 [] OTHER -> 0]
    /\ tools = <<>>
    /\ money = 0
    /\ level = 200
    /\ hasWarnedAboutLowCoal = FALSE
    /\ currentCraft = NoJob
    /\ craftingQueue = <<>>
    /\ speedMultiplier = 10
    /\ jobsStarted = 0
    /\ activeContracts = << Contract(1, "nail", 40, 2, 110),
                            Contract(2, "nail", 100, 4, 120) >>
    /\ specialContracts = << Contract(3, "bullets", 2, 3, 150) >>
    /\ contractTimer = 0
    /\ contractsMade = 3
    /\ InitCatalog
    /\ InitWorkforce
    /\ InitEmitter
    /\ InitStore
    /\ InitEvents
    /\ InitClock
    /\ now = 0
    /\ lowsSinceRefill = 0
    /\ craftTicks = 0
    /\ craftSteady = FALSE
    /\ events = <<>>
    /\ lastOp = NoOp

NextDeadline ==
    \/ DoContractsUpdate
    \/ DoRejectContract
    \/ DoFulfillContract
    \/ DoClockPasses

SpecDeadline == InitDeadline /\ [][NextDeadline]_vars

\* C40: fulfillContract never pays out a contract whose expiry instant has
\* passed: once the wall clock is at or beyond a contract's expiry, a call of
\* fulfillContract for it returns false and leaves the money, the stock and the
\* contract as they are, also before the next update() has swept it.
C40_NoPayoutAfterExpiry ==
    [][ ( /\ lastOp'.op = "fulfillContract"
          /\ C19_Known(lastOp'.n)
          /\ C19_Found(lastOp'.n).expiryTime <= now )
        => /\ ~lastOp'.ret
           /\ money' = money
           /\ items' = items
           /\ CountName(events', "contract:completed") = 0 ]_vars

====
